---------------------------- MODULE Spec2Model ----------------------------
(***************************************************************************)
(* Oklab colour picker: the working-colour-space lifecycle (startup,       *)
(* ICC import, reset, restore), the ICC profile parser, the gamut clamp    *)
(* and the interaction handlers that read the active working space.        *)
(*                                                                         *)
(* Numbers.  JavaScript numbers are modelled as fixed-point integers with  *)
(* FP units per 1.0 (four decimal places); every product and quotient is   *)
(* truncated toward zero.  A literal of the source such as 0.3963377774    *)
(* appears as its value in units, 3963.  Hue angles are whole degrees and  *)
(* the trigonometric functions are resolved to multiples of 45 degrees.    *)
(***************************************************************************)
EXTENDS Integers, Sequences, FiniteSets, TLC

\* JavaScript null in a variable that otherwise holds an object, a string
\* (a sequence of character codes) or a matrix.
NullObj == [null |-> TRUE]
NullStr == << -1 >>
NullMatrix == << >>

\* Units per 1.0 of the fixed-point representation of a JavaScript number.
FP == 10 * 1000

Abs(x) == IF x < 0 THEN -x ELSE x
Sign(x) == IF x < 0 THEN -1 ELSE 1
Max2(x, y) == IF x >= y THEN x ELSE y
Min2(x, y) == IF x <= y THEN x ELSE y

\* Integer quotient truncated toward zero.  The quotient is a function, so
\* that both operands are evaluated once, before the division.
TDivF[n \in Int, d \in Int] == Sign(n) * Sign(d) * (Abs(n) \div Abs(d))
TDiv(n, d) == TDivF[n, d]
\* x * y and x / y on fixed-point numbers.
FMul(x, y) == TDiv(x * y, FP)
FDiv(x, y) == TDiv(x * FP, y)

RECURSIVE ISqrtIter(_, _, _)
ISqrtIter(n, lo, hi) ==
    IF hi - lo <= 1 THEN lo
    ELSE LET mid == (lo + hi) \div 2
         IN  IF mid * mid <= n THEN ISqrtIter(n, mid, hi) ELSE ISqrtIter(n, lo, mid)
\* Math.sqrt on a non-negative integer, rounded down.
ISqrt(n) == ISqrtIter(n, 0, 46340)

-----------------------------------------------------------------------------
(* MATRIX UTILITIES (color-spaces.js)                                      *)

mat3Multiply(A, B) ==
    [i \in 1..3 |-> [j \in 1..3 |->
        FMul(A[i][1], B[1][j]) + FMul(A[i][2], B[2][j]) + FMul(A[i][3], B[3][j])]]

mat3Apply(M, r, g, b) ==
    << FMul(M[1][1], r) + FMul(M[1][2], g) + FMul(M[1][3], b),
       FMul(M[2][1], r) + FMul(M[2][2], g) + FMul(M[2][3], b),
       FMul(M[3][1], r) + FMul(M[3][2], g) + FMul(M[3][3], b) >>

\* The determinant mat3Invert computes (Cramer's rule).
mat3Det(M) ==
    LET a == M[1][1]  b == M[1][2]  c == M[1][3]
        d == M[2][1]  e == M[2][2]  f == M[2][3]
        g == M[3][1]  h == M[3][2]  k == M[3][3]
    IN  FMul(a, FMul(e, k) - FMul(f, h)) - FMul(b, FMul(d, k) - FMul(f, g))
          + FMul(c, FMul(d, h) - FMul(e, g))

\* 1e-15 in units: the threshold lies below one unit, so |det| < 1e-15
\* holds of a fixed-point determinant exactly when it is below one unit.
DET_EPSILON == 1

\* if (Math.abs(det) < 1e-15) return null
mat3Singular(M) == Abs(mat3Det(M)) < DET_EPSILON

\* An inverse whose cofactors are laid out without the transposition.
mat3InvertCofactors(M) ==
    LET a == M[1][1]  b == M[1][2]  c == M[1][3]
        d == M[2][1]  e == M[2][2]  f == M[2][3]
        g == M[3][1]  h == M[3][2]  k == M[3][3]
        det == mat3Det(M)
    IN  IF mat3Singular(M) THEN NullMatrix
        ELSE LET inv == IF det = 0 THEN 0 ELSE FDiv(FP, det)   \* 1 / det
             IN  << << FMul(FMul(e, k) - FMul(f, h), inv),
                       FMul(FMul(f, g) - FMul(d, k), inv),
                       FMul(FMul(d, h) - FMul(e, g), inv) >>,
                    << FMul(FMul(c, h) - FMul(b, k), inv),
                       FMul(FMul(a, k) - FMul(c, g), inv),
                       FMul(FMul(b, g) - FMul(a, h), inv) >>,
                    << FMul(FMul(b, f) - FMul(c, e), inv),
                       FMul(FMul(c, d) - FMul(a, f), inv),
                       FMul(FMul(a, e) - FMul(b, d), inv) >> >>

mat3Invert(M) ==
    LET a == M[1][1]  b == M[1][2]  c == M[1][3]
        d == M[2][1]  e == M[2][2]  f == M[2][3]
        g == M[3][1]  h == M[3][2]  k == M[3][3]
        det == mat3Det(M)
    IN  IF mat3Singular(M) THEN NullMatrix
        ELSE LET inv == IF det = 0 THEN 0 ELSE FDiv(FP, det)   \* 1 / det
             IN  << << FMul(FMul(e, k) - FMul(f, h), inv),
                       FMul(FMul(c, h) - FMul(b, k), inv),
                       FMul(FMul(b, f) - FMul(c, e), inv) >>,
                    << FMul(FMul(f, g) - FMul(d, k), inv),
                       FMul(FMul(a, k) - FMul(c, g), inv),
                       FMul(FMul(c, d) - FMul(a, f), inv) >>,
                    << FMul(FMul(d, h) - FMul(e, g), inv),
                       FMul(FMul(b, g) - FMul(a, h), inv),
                       FMul(FMul(a, e) - FMul(b, d), inv) >> >>

XYZ_TO_LINEAR_SRGB ==
    << << 32410, -15374, -4986 >>,
       << -9692,  18760,   416 >>,
       <<   556,  -2040, 10570 >> >>

BRADFORD_D50_TO_D65 ==
    << << 9556,  -230,   632 >>,
       << -283, 10099,   210 >>,
       <<  123,  -205, 13299 >> >>

-----------------------------------------------------------------------------
(* COLOR MATH (color-math.js)                                              *)

oklabToLinearSRGB(L, a, b) ==
    LET lCubeRoot == L + FMul(3963, a) + FMul(2158, b)
        mCubeRoot == L - FMul(1056, a) - FMul(639, b)
        sCubeRoot == L - FMul(895, a) - FMul(12915, b)
        Cube(x)   == FMul(FMul(x, x), x)
        lLinear   == Cube(lCubeRoot)
        mLinear   == Cube(mCubeRoot)
        sLinear   == Cube(sCubeRoot)
    IN  << FMul(40767, lLinear) - FMul(33077, mLinear) + FMul(2310, sLinear),
           FMul(-12684, lLinear) + FMul(26098, mLinear) - FMul(3413, sLinear),
           FMul(-42, lLinear) - FMul(7034, mLinear) + FMul(17076, sLinear) >>

\* Math.cos / Math.sin of an angle in degrees, resolved to multiples of 45.
CosDeg(h) ==
    << 10000, 7071, 0, -7071, -10000, -7071, 0, 7071 >>[((h % 360) \div 45) + 1]
SinDeg(h) ==
    << 0, 7071, 10000, 7071, 0, -7071, -10000, -7071 >>[((h % 360) \div 45) + 1]

\* Math.atan2(b, a) * (180 / Math.PI), to the nearest multiple of 45 degrees,
\* in (-180, 180]; 4142 is tan(22.5 degrees).
Atan2Deg(b, a) ==
    IF a = 0 /\ b = 0 THEN 0
    ELSE IF Abs(b) * FP <= 4142 * Abs(a)
         THEN (IF a > 0 THEN 0 ELSE IF b >= 0 THEN 180 ELSE -180)
    ELSE IF Abs(a) * FP <= 4142 * Abs(b)
         THEN (IF b > 0 THEN 90 ELSE -90)
    ELSE IF a > 0 THEN (IF b > 0 THEN 45 ELSE -45)
         ELSE (IF b > 0 THEN 135 ELSE -135)

\* Returns <<chroma, hueDegrees>>.
oklabToOklch(a, b) ==
    LET chroma == ISqrt(a * a + b * b)
        hueDegrees == Atan2Deg(b, a)
    IN  << chroma, IF hueDegrees < 0 THEN hueDegrees + 360 ELSE hueDegrees >>

\* Returns <<a, b>>.
oklchToOklab(chroma, hueDegrees) ==
    << FMul(chroma, CosDeg(hueDegrees)), FMul(chroma, SinDeg(hueDegrees)) >>

clamp01(value) == Max2(0, Min2(FP, value))

\* Math.cbrt: the largest r whose cube does not exceed |x|, with the sign of x.
RECURSIVE ICbrtIter(_, _, _)
ICbrtIter(x, lo, hi) ==
    IF hi - lo <= 1 THEN lo
    ELSE LET mid == (lo + hi) \div 2
         IN  IF FMul(FMul(mid, mid), mid) <= x
             THEN ICbrtIter(x, mid, hi) ELSE ICbrtIter(x, lo, mid)
Cbrt(x) == Sign(x) * ICbrtIter(Abs(x), 0, 4 * FP)

\* Math.pow(x, e) for x >= 0 and e >= 0: the integer part of the exponent by
\* repeated multiplication, its fraction by the square roots x^(1/2),
\* x^(1/4), ... to POW_BITS binary places.
POW_BITS == 12
FSqrt(x) == ISqrt(x * FP)
RECURSIVE PowInt(_, _)
PowInt(x, n) == IF n = 0 THEN FP ELSE FMul(x, PowInt(x, n - 1))
RECURSIVE PowFrac(_, _, _)
PowFrac(x, f, k) ==
    IF k = 0 \/ f = 0 THEN FP
    ELSE LET r == FSqrt(x)
         IN  IF 2 * f >= FP THEN FMul(r, PowFrac(r, 2 * f - FP, k - 1))
             ELSE PowFrac(r, 2 * f, k - 1)
Pow(x, e) == FMul(PowInt(x, e \div FP), PowFrac(x, e % FP, POW_BITS))

\* gammaValue >= 0.04045 ? ((gammaValue + 0.055) / 1.055) ** 2.4 : gammaValue / 12.92
gammaToLinear(gammaValue) ==
    IF gammaValue >= 405
    THEN Pow(FDiv(gammaValue + 550, 10550), 24000)
    ELSE FDiv(gammaValue, 129200)

\* Returns <<L, a, b>>.
linearSRGBToOKLab(r, g, b) ==
    LET lLinear == FMul(4122, r) + FMul(5363, g) + FMul(514, b)
        mLinear == FMul(2119, r) + FMul(6807, g) + FMul(1074, b)
        sLinear == FMul(883, r) + FMul(2817, g) + FMul(6300, b)
        lRoot == Cbrt(lLinear)
        mRoot == Cbrt(mLinear)
        sRoot == Cbrt(sLinear)
    IN  << FMul(2105, lRoot) + FMul(7936, mRoot) - FMul(41, sRoot),
           FMul(19780, lRoot) - FMul(24286, mRoot) + FMul(4506, sRoot),
           FMul(259, lRoot) + FMul(7828, mRoot) - FMul(8087, sRoot) >>

linearP3ToLinearSRGB(r, g, b) ==
    << FMul(12249, r) - FMul(2249, g),
       FMul(-421, r) + FMul(10421, g),
       FMul(-196, r) - FMul(786, g) + FMul(10983, b) >>

\* A character code as a hexadecimal digit, -1 when it is none.
HexDigit(c) ==
    IF c >= 48 /\ c <= 57 THEN c - 48
    ELSE IF c >= 97 /\ c <= 102 THEN c - 87
    ELSE IF c >= 65 /\ c <= 70 THEN c - 55
    ELSE -1

\* parseInt(str.slice(i, i + 2), 16) / 255 on two hexadecimal digits.
HexByte(str, i) == TDiv((HexDigit(str[i]) * 16 + HexDigit(str[i + 1])) * FP, 255)

TOLERANCE == 5

\* A gamut test without the tolerance.
isInGamutExact(r, g, b) ==
    /\ r >= 0 /\ r <= FP
    /\ g >= 0 /\ g <= FP
    /\ b >= 0 /\ b <= FP

isInGamut(r, g, b) ==
    /\ r >= -TOLERANCE /\ r <= FP + TOLERANCE
    /\ g >= -TOLERANCE /\ g <= FP + TOLERANCE
    /\ b >= -TOLERANCE /\ b <= FP + TOLERANCE

-----------------------------------------------------------------------------
(* WORKING COLOR SPACE (color-spaces.js)                                   *)

\* A name is the sequence of the character codes of the string.
NAME_SRGB == << 115, 82, 71, 66 >>
NAME_P3 == << 68, 105, 115, 112, 108, 97, 121, 32, 80, 51 >>
NAME_CUSTOM == << 67, 117, 115, 116, 111, 109, 32, 67, 83 >>

\* The sRGB transfer function pair {decode: gammaToLinear, encode: linearToGamma}.
SRGB_TRC == [kind |-> "srgb"]

\* The object createWorkingCS returns.  The closures toLinearSRGB and
\* fromLinearSRGB are represented by the matrices they close over, decode and
\* encode by the curve they evaluate; perChannelTRC is absent, which reads
\* as false.
createWorkingCS(name, toSRGBMatrix, fromSRGBMatrix, trc) ==
    [ name |-> name,
      toSRGBMatrix |-> toSRGBMatrix,
      fromSRGBMatrix |-> fromSRGBMatrix,
      curves |-> << trc >>,
      perChannelTRC |-> FALSE ]

IDENTITY3 == << << FP, 0, 0 >>, << 0, FP, 0 >>, << 0, 0, FP >> >>

createSRGBWorkingCS == createWorkingCS(NAME_SRGB, IDENTITY3, IDENTITY3, SRGB_TRC)

createP3WorkingCS ==
    LET p3ToSRGB == << << 12249, -2249, 0 >>,
                       << -421, 10421, 0 >>,
                       << -196, -786, 10983 >> >>
        srgbToP3 == << << 8225, 1775, 0 >>,
                       << 332, 9668, 0 >>,
                       << 171, 724, 9105 >> >>
    IN  createWorkingCS(NAME_P3, p3ToSRGB, srgbToP3, SRGB_TRC)

\* workingCS.toLinearSRGB(r, g, b) and workingCS.fromLinearSRGB(r, g, b).
toLinearSRGB(cs, r, g, b) == mat3Apply(cs.toSRGBMatrix, r, g, b)
fromLinearSRGB(cs, r, g, b) == mat3Apply(cs.fromSRGBMatrix, r, g, b)

\* What a reader of the active space relies on: an object, with its name,
\* both transforms and its decode/encode curves in place.
IsWorkingCS(cs) ==
    /\ cs # NullObj
    /\ DOMAIN cs = {"name", "toSRGBMatrix", "fromSRGBMatrix", "curves", "perChannelTRC"}
    /\ cs.name # NullStr /\ Len(cs.toSRGBMatrix) = 3 /\ Len(cs.fromSRGBMatrix) = 3
    /\ Len(cs.curves) = (IF cs.perChannelTRC THEN 3 ELSE 1)

-----------------------------------------------------------------------------
(* GAMUT HELPERS (color-math.js); cs is the active workingCS the code      *)
(* reads from the global.                                                  *)

isInWorkingGamut(cs, L, a, b) ==
    \E lin \in {oklabToLinearSRGB(L, a, b)} :
    \E w \in {fromLinearSRGB(cs, lin[1], lin[2], lin[3])} :
        isInGamut(w[1], w[2], w[3])

BISECTION_STEPS == 20

\* for (let i = 0; i < 20; i++) { mid = (lo + hi) / 2; ... }: the value of
\* lo after the loop, entered at iteration i.
RECURSIVE BisectChroma(_, _, _, _, _, _)
BisectChroma(cs, L, hueDegrees, lo, hi, i) ==
    IF i >= BISECTION_STEPS THEN lo
    ELSE LET mid == TDiv(lo + hi, 2)
             ab  == oklchToOklab(mid, hueDegrees)
         IN  IF isInWorkingGamut(cs, L, ab[1], ab[2])
             THEN BisectChroma(cs, L, hueDegrees, mid, hi, i + 1)
             ELSE BisectChroma(cs, L, hueDegrees, lo, mid, i + 1)

\* A search that returns the upper end of the last interval.
RECURSIVE BisectChromaHi(_, _, _, _, _, _)
BisectChromaHi(cs, L, hueDegrees, lo, hi, i) ==
    IF i >= BISECTION_STEPS THEN hi
    ELSE LET mid == TDiv(lo + hi, 2)
             ab  == oklchToOklab(mid, hueDegrees)
         IN  IF isInWorkingGamut(cs, L, ab[1], ab[2])
             THEN BisectChromaHi(cs, L, hueDegrees, mid, hi, i + 1)
             ELSE BisectChromaHi(cs, L, hueDegrees, lo, mid, i + 1)

findMaxInGamutChromaHi(cs, L, hueDegrees, maxSearch) ==
    LET abHi == oklchToOklab(maxSearch, hueDegrees)
    IN  IF isInWorkingGamut(cs, L, abHi[1], abHi[2]) THEN maxSearch
        ELSE BisectChromaHi(cs, L, hueDegrees, 0, maxSearch, 0)

findMaxInGamutChroma(cs, L, hueDegrees, maxSearch) ==
    LET abHi == oklchToOklab(maxSearch, hueDegrees)
    IN  IF isInWorkingGamut(cs, L, abHi[1], abHi[2]) THEN maxSearch
        ELSE BisectChroma(cs, L, hueDegrees, 0, maxSearch, 0)

\* A clamp that snaps the hue to the a axis before searching.
clampToWorkingGamutAxis(cs, L, a, b) ==
    IF isInWorkingGamut(cs, L, a, b) THEN << a, b >>
    ELSE LET ch == oklabToOklch(a, b)
             maxChroma == findMaxInGamutChroma(cs, L, 0, ch[1])
         IN  oklchToOklab(maxChroma, 0)

\* A clamp without the early return for colours already in gamut.
clampToWorkingGamutAlways(cs, L, a, b) ==
    LET ch == oklabToOklch(a, b)
        maxChroma == findMaxInGamutChroma(cs, L, ch[2], ch[1])
    IN  oklchToOklab(maxChroma, ch[2])

clampToWorkingGamut(cs, L, a, b) ==
    IF isInWorkingGamut(cs, L, a, b) THEN << a, b >>
    ELSE LET ch == oklabToOklch(a, b)
             maxChroma == findMaxInGamutChroma(cs, L, ch[2], ch[1])
         IN  oklchToOklab(maxChroma, ch[2])

-----------------------------------------------------------------------------
(* ICC PROFILE PARSER (color-spaces.js).  A buffer is the sequence of its  *)
(* bytes; offsets count from 0 as in the source.                           *)

\* DataView accessors throw a RangeError when the read leaves the buffer.
InBounds(buf, offset, n) == offset >= 0 /\ offset + n <= Len(buf)

\* bytes[i] fed to String.fromCharCode: a read outside the array yields
\* undefined, which becomes the character code 0.
CharCodeAt(buf, i) == IF i >= 0 /\ i < Len(buf) THEN buf[i + 1] ELSE 0
FourCC(buf, o) ==
    << CharCodeAt(buf, o), CharCodeAt(buf, o + 1),
       CharCodeAt(buf, o + 2), CharCodeAt(buf, o + 3) >>

\* Big-endian reads of a position already known to be in bounds.
getUint16(buf, o) == buf[o + 1] * 256 + buf[o + 2]
getUint32(buf, o) ==
    buf[o + 1] * 16777216 + buf[o + 2] * 65536 + buf[o + 3] * 256 + buf[o + 4]
getInt32(buf, o) ==
    (IF buf[o + 1] >= 128 THEN buf[o + 1] - 256 ELSE buf[o + 1]) * 16777216
        + buf[o + 2] * 65536 + buf[o + 3] * 256 + buf[o + 4]

\* raw / 65536, in units (rounded down).
readS15Fixed16(buf, offset) ==
    LET raw == getInt32(buf, offset)
    IN  (raw \div 65536) * FP + ((raw % 65536) * FP) \div 65536

SIG_DESC == << 100, 101, 115, 99 >>
SIG_MLUC == << 109, 108, 117, 99 >>
SIG_CURV == << 99, 117, 114, 118 >>
SIG_PARA == << 112, 97, 114, 97 >>
SIG_RXYZ == << 114, 88, 89, 90 >>
SIG_GXYZ == << 103, 88, 89, 90 >>
SIG_BXYZ == << 98, 88, 89, 90 >>
SIG_RTRC == << 114, 84, 82, 67 >>
SIG_GTRC == << 103, 84, 82, 67 >>
SIG_BTRC == << 98, 84, 82, 67 >>

ERR_RANGE == "RangeError"
ERR_NO_XYZ == "Not a matrix-based RGB profile (missing XYZ tags)"
ERR_SINGULAR == "Singular matrix in ICC profile"

TAG_COUNT_OFFSET == 128
TAG_TABLE_OFFSET == 132
TAG_ENTRY_SIZE == 12

\* The tag-table loop: entry i (from 0) is read at 132 + i * 12.
TagTableThrows(buf) ==
    \/ ~InBounds(buf, TAG_COUNT_OFFSET, 4)
    \/ LET tagCount == getUint32(buf, TAG_COUNT_OFFSET)
       IN  tagCount > 0 /\ ~InBounds(buf, TAG_TABLE_OFFSET, tagCount * TAG_ENTRY_SIZE)

TagEntries(buf) ==
    [i \in 1..getUint32(buf, TAG_COUNT_OFFSET) |->
        LET base == TAG_TABLE_OFFSET + (i - 1) * TAG_ENTRY_SIZE
        IN  [ sig    |-> FourCC(buf, base),
              offset |-> getUint32(buf, base + 4),
              size   |-> getUint32(buf, base + 8) ]]

\* tags[sig] is truthy; tags[sig] is the last entry written under sig.
HasTag(tags, sig) == \E i \in DOMAIN tags : tags[i].sig = sig
TagOf(tags, sig) ==
    LET last == CHOOSE i \in DOMAIN tags :
                    /\ tags[i].sig = sig
                    /\ \A j \in DOMAIN tags : tags[j].sig = sig => j <= i
    IN  tags[last]

\* String.prototype.trim on a sequence of character codes.
IsWhiteSpace(c) == c \in {9, 10, 11, 12, 13, 32, 160}
RECURSIVE TrimLeft(_)
TrimLeft(s) ==
    IF s # << >> /\ IsWhiteSpace(Head(s)) THEN TrimLeft(Tail(s)) ELSE s
RECURSIVE TrimRight(_)
TrimRight(s) ==
    IF s # << >> /\ IsWhiteSpace(s[Len(s)])
    THEN TrimRight(SubSeq(s, 1, Len(s) - 1)) ELSE s
Trim(s) == TrimRight(TrimLeft(s))

\* bytes.slice(start, end) for 0 <= start: both ends are clipped to the array.
SliceBytes(buf, start, end) ==
    LET s == Min2(start, Len(buf))
        e == Min2(Max2(end, 0), Len(buf))
    IN  IF s < e THEN SubSeq(buf, s + 1, e) ELSE << >>

\* name || 'Custom CS'
OrCustom(name) == IF name = << >> THEN NAME_CUSTOM ELSE name

NameOk(name) == [ok |-> TRUE, name |-> name]
NameThrows == [ok |-> FALSE, name |-> NullStr]

\* The "Extract profile description" block: the name it leaves in
\* profileName, or the RangeError one of its reads throws.
ParseDescription(buf, tags) ==
    IF ~HasTag(tags, SIG_DESC) THEN NameOk(NAME_CUSTOM)
    ELSE
      LET descOff  == TagOf(tags, SIG_DESC).offset
          descType == FourCC(buf, descOff)
      IN  IF descType = SIG_DESC THEN
            IF ~InBounds(buf, descOff + 8, 4) THEN NameThrows
            ELSE LET strLen == getUint32(buf, descOff + 8)
                     strBytes == SliceBytes(buf, descOff + 12, descOff + 12 + strLen - 1)
                 IN  NameOk(OrCustom(Trim(strBytes)))
          ELSE IF descType = SIG_MLUC THEN
            IF ~InBounds(buf, descOff + 8, 4) THEN NameThrows
            ELSE IF getUint32(buf, descOff + 8) = 0 THEN NameOk(NAME_CUSTOM)
            ELSE IF ~InBounds(buf, descOff + 16, 4) \/ ~InBounds(buf, descOff + 20, 4)
                 THEN NameThrows
            ELSE LET recLen == getUint32(buf, descOff + 16)
                     recOff == getUint32(buf, descOff + 20)
                     n      == recLen \div 2
                 IN  IF n > 0 /\ ~InBounds(buf, descOff + recOff, n * 2) THEN NameThrows
                     ELSE LET strData == [i \in 1..n |->
                                             getUint16(buf, descOff + recOff + (i - 1) * 2)]
                              noNul == SelectSeq(strData, LAMBDA c : c # 0)
                          IN  NameOk(OrCustom(Trim(noNul)))
          ELSE NameOk(NAME_CUSTOM)

\* readXYZTag: three s15Fixed16 numbers at tag.offset + 8.
XYZTagThrows(buf, tag) == ~InBounds(buf, tag.offset + 8, 12)
readXYZTag(buf, tag) ==
    LET o == tag.offset + 8
    IN  << readS15Fixed16(buf, o), readS15Fixed16(buf, o + 4), readS15Fixed16(buf, o + 8) >>

TrcOk(trc) == [ok |-> TRUE, trc |-> trc]
TrcThrows == [ok |-> FALSE, trc |-> NullObj]

\* A curve that is the sRGB transfer function whatever the exponent.
GammaOnlyAsSRGB(g) == SRGB_TRC
\* { decode: v => Math.pow(Math.max(0, v), g), encode: v => Math.pow(Math.max(0, v), 1/g) }
GammaOnly(g) == [kind |-> "gamma", g |-> g]

\* parseTRC: the decode/encode pair is represented by the curve it
\* evaluates: its kind and the numbers its closures capture.
parseTRC(buf, tag) ==
    LET o    == tag.offset
        type == FourCC(buf, o)
        p(idx) == readS15Fixed16(buf, o + 12 + idx * 4)
        pOk(n) == InBounds(buf, o + 12, n * 4)
    IN  IF type = SIG_CURV THEN
          IF ~InBounds(buf, o + 8, 4) THEN TrcThrows
          ELSE LET count == getUint32(buf, o + 8)
               IN  IF count = 0 THEN TrcOk([kind |-> "linear"])
                   ELSE IF count = 1 THEN
                     IF ~InBounds(buf, o + 12, 2) THEN TrcThrows
                     ELSE TrcOk(GammaOnly(TDiv(getUint16(buf, o + 12) * FP, 256)))
                   ELSE
                     IF ~InBounds(buf, o + 12, count * 2) THEN TrcThrows
                     ELSE TrcOk([kind |-> "table",
                                 table |-> [i \in 1..count |->
                                    TDiv(getUint16(buf, o + 12 + (i - 1) * 2) * FP, 65535)]])
        ELSE IF type = SIG_PARA THEN
          IF ~InBounds(buf, o + 8, 2) THEN TrcThrows
          ELSE LET funcType == getUint16(buf, o + 8)
               IN  IF funcType = 0 THEN
                     IF ~pOk(1) THEN TrcThrows
                     ELSE TrcOk(GammaOnly(p(0)))
                   ELSE IF funcType = 3 THEN
                     IF ~pOk(5) THEN TrcThrows
                     ELSE TrcOk([kind |-> "para3", g |-> p(0), a |-> p(1), b |-> p(2),
                                 c |-> p(3), d |-> p(4)])
                   ELSE IF funcType = 4 THEN
                     IF ~pOk(7) THEN TrcThrows
                     ELSE TrcOk([kind |-> "para4", g |-> p(0), a |-> p(1), b |-> p(2),
                                 c |-> p(3), d |-> p(4), e |-> p(5), f |-> p(6)])
                   ELSE
                     IF ~pOk(1) THEN TrcThrows
                     ELSE TrcOk(GammaOnly(p(0)))
        ELSE TrcOk(SRGB_TRC)

\* tags[sig] ? parseTRC(tags[sig]) : { decode: gammaToLinear, encode: linearToGamma }
ChannelTRC(buf, tags, sig) ==
    IF HasTag(tags, sig) THEN parseTRC(buf, TagOf(tags, sig)) ELSE TrcOk(SRGB_TRC)

HasXYZTags(tags) ==
    HasTag(tags, SIG_RXYZ) /\ HasTag(tags, SIG_GXYZ) /\ HasTag(tags, SIG_BXYZ)

\* customToLinearSRGB of a buffer whose three XYZ tags can be read.
ForwardMatrix(buf, tags) ==
    LET rXYZ == readXYZTag(buf, TagOf(tags, SIG_RXYZ))
        gXYZ == readXYZTag(buf, TagOf(tags, SIG_GXYZ))
        bXYZ == readXYZTag(buf, TagOf(tags, SIG_BXYZ))
        customToXYZ_D50 == << << rXYZ[1], gXYZ[1], bXYZ[1] >>,
                              << rXYZ[2], gXYZ[2], bXYZ[2] >>,
                              << rXYZ[3], gXYZ[3], bXYZ[3] >> >>
        customToXYZ_D65 == mat3Multiply(BRADFORD_D50_TO_D65, customToXYZ_D50)
    IN  mat3Multiply(XYZ_TO_LINEAR_SRGB, customToXYZ_D65)

Thrown(e) == [ok |-> FALSE, err |-> e, cs |-> NullObj]
Returned(cs) == [ok |-> TRUE, err |-> "", cs |-> cs]

\* parseICCProfile(buffer): the object it returns or the error it throws.
parseICCProfile(buf) ==
    IF TagTableThrows(buf) THEN Thrown(ERR_RANGE)
    ELSE
      LET tags == TagEntries(buf)
          desc == ParseDescription(buf, tags)
      IN  IF ~desc.ok THEN Thrown(ERR_RANGE)
          ELSE IF ~HasXYZTags(tags) THEN Thrown(ERR_NO_XYZ)
          ELSE IF \/ XYZTagThrows(buf, TagOf(tags, SIG_RXYZ))
                  \/ XYZTagThrows(buf, TagOf(tags, SIG_GXYZ))
                  \/ XYZTagThrows(buf, TagOf(tags, SIG_BXYZ))
               THEN Thrown(ERR_RANGE)
          ELSE
            LET customToLinearSRGB == ForwardMatrix(buf, tags)
                linearSRGBToCustom == mat3Invert(customToLinearSRGB)
            IN  IF linearSRGBToCustom = NullMatrix THEN Thrown(ERR_SINGULAR)
                ELSE
                  LET rTRC == ChannelTRC(buf, tags, SIG_RTRC)
                      gTRC == ChannelTRC(buf, tags, SIG_GTRC)
                      bTRC == ChannelTRC(buf, tags, SIG_BTRC)
                  IN  IF ~rTRC.ok \/ ~gTRC.ok \/ ~bTRC.ok THEN Thrown(ERR_RANGE)
                      ELSE Returned(
                             [ name |-> desc.name,
                               toSRGBMatrix |-> customToLinearSRGB,
                               fromSRGBMatrix |-> linearSRGBToCustom,
                               curves |-> << rTRC.trc, gTRC.trc, bTRC.trc >>,
                               perChannelTRC |-> TRUE ])

-----------------------------------------------------------------------------
(* ICC buffers given to the parser.  A profile description names what the  *)
(* buffer holds; ICCBuffer lays out its bytes: the 128-byte header, the    *)
(* tag count, the tag table and the tag data in table order.               *)

BE16(n) == << (n \div 256) % 256, n % 256 >>
BE32(n) == << (n \div 16777216) % 256, (n \div 65536) % 256, (n \div 256) % 256, n % 256 >>

Zeros(n) == [i \in 1..n |-> 0]

RECURSIVE DataLenBefore(_, _)
DataLenBefore(entries, i) ==
    IF i <= 1 THEN 0 ELSE DataLenBefore(entries, i - 1) + Len(entries[i - 1].data)

RECURSIVE ConcatData(_, _)
ConcatData(entries, i) ==
    IF i > Len(entries) THEN << >> ELSE entries[i].data \o ConcatData(entries, i + 1)

RECURSIVE ConcatTable(_, _)
ConcatTable(entries, i) ==
    IF i > Len(entries) THEN << >>
    ELSE entries[i].sig
           \o BE32(132 + 12 * Len(entries) + DataLenBefore(entries, i))
           \o BE32(Len(entries[i].data))
           \o ConcatTable(entries, i + 1)

MkICC(entries) ==
    Zeros(128) \o BE32(Len(entries)) \o ConcatTable(entries, 1) \o ConcatData(entries, 1)

XYZBlock(v) ==
    << 88, 89, 90, 32, 0, 0, 0, 0 >> \o BE32(v[1]) \o BE32(v[2]) \o BE32(v[3])
\* curv, one entry: gamma 2.2 as u8Fixed8.
CurvGammaBlock == SIG_CURV \o << 0, 0, 0, 0 >> \o BE32(1) \o BE16(563)
\* curv cut off after its reserved bytes: the count cannot be read.
CurvCutBlock == SIG_CURV \o << 0, 0, 0, 0 >>
\* curv without an entry, and curv with the three samples 0, 0.305 and 1.
CurvLinearBlock == SIG_CURV \o << 0, 0, 0, 0 >> \o BE32(0)
CurvTableBlock ==
    SIG_CURV \o << 0, 0, 0, 0 >> \o BE32(3) \o BE16(0) \o BE16(20000) \o BE16(65535)
\* para: the function number, two reserved bytes, the s15Fixed16 parameters.
RECURSIVE ParaParams(_)
ParaParams(raw) == IF raw = << >> THEN << >> ELSE BE32(Head(raw)) \o ParaParams(Tail(raw))
ParaBlock(funcType, raw) ==
    SIG_PARA \o << 0, 0, 0, 0 >> \o BE16(funcType) \o << 0, 0 >> \o ParaParams(raw)
\* g = 2.4, a = 1/1.055, b = 0.055/1.055, c = 1/12.92, d = 0.04045, e = f = 0.
PARA_SRGB == << 157286, 62119, 3417, 5072, 2651, 0, 0 >>
\* A curve of type 'sf32', which is neither curv nor para.
SIG_SF32 == << 115, 102, 51, 50 >>
UnknownCurveBlock == SIG_SF32 \o << 0, 0, 0, 0 >> \o BE32(157286)
DescBlock(text) == SIG_DESC \o << 0, 0, 0, 0 >> \o BE32(Len(text) + 1) \o text \o << 0 >>
\* desc cut off after its reserved bytes: the string length cannot be read.
DescCutBlock == SIG_DESC \o << 0, 0, 0, 0 >>
\* desc whose length field points far outside the buffer.
DescLongBlock(text) == SIG_DESC \o << 0, 0, 0, 0 >> \o BE32(60000) \o text \o << 0 >>
\* A description of type 'text', which is neither desc nor mluc.
SIG_TEXT == << 116, 101, 120, 116 >>
DescTextBlock(text) == SIG_TEXT \o << 0, 0, 0, 0 >> \o text \o << 0 >>
\* mluc without a record.
MlucZeroBlock == SIG_MLUC \o << 0, 0, 0, 0 >> \o BE32(0) \o BE32(12)
RECURSIVE UTF16BE(_)
UTF16BE(text) == IF text = << >> THEN << >> ELSE BE16(Head(text)) \o UTF16BE(Tail(text))
\* mluc with one record, its length at +16 and its offset at +20.
MlucBlock(text, recOff) ==
    SIG_MLUC \o << 0, 0, 0, 0 >> \o BE32(1) \o BE32(12)
        \o BE32(2 * Len(text)) \o BE32(recOff) \o UTF16BE(text)

\* "Pic" and "Pic2", two profile names.
TEXT_A == << 80, 105, 99 >>
TEXT_B == << 80, 105, 99, 50 >>

\* Primaries as raw s15Fixed16 columns (r, g, b): the sRGB primaries in D50,
\* the same with the red primary at 80 per cent, two equal columns, and
\* the Display P3 primaries, whose red has a negative Z.
Primaries(kind) ==
    CASE kind = "srgb"     -> << << 28578, 14581, 912 >>, << 25241, 46981, 6362 >>,
                                 << 9376, 3972, 46799 >> >>
      [] kind = "narrow"   -> << << 22862, 11665, 730 >>, << 25241, 46981, 6362 >>,
                                 << 9376, 3972, 46799 >> >>
      [] kind = "singular" -> << << 28578, 14581, 912 >>, << 28578, 14581, 912 >>,
                                 << 9376, 3972, 46799 >> >>
      [] kind = "p3"       -> << << 33758, 15807, -72 >>, << 19137, 45364, 2746 >>,
                                 << 10296, 4365, 51387 >> >>

PrimKinds == {"srgb", "narrow", "singular", "p3"}
DescKinds == {"none", "desc", "mluc", "descCut", "mlucFar",
              "descEmpty", "descLong", "descText", "mlucZero", "mlucEmpty"}
TrcKinds == {"none", "gamma", "cut", "linear", "table", "para0", "para1", "para3",
             "para4", "paraCut", "unknown", "each"}
\* The curves that end before the fields their type calls for: they are laid
\* out last, at the end of the buffer.
TrcCutKinds == {"cut", "paraCut"}

\* The rTRC tag of a profile: a gamma of 2.2, or the identity in the profile
\* whose three curves differ.
RedCurveBlock(kind) == IF kind = "each" THEN CurvLinearBlock ELSE CurvGammaBlock

\* The bTRC tag of a profile; gTRC holds a gamma of 2.2.
BlueCurveBlock(kind) ==
    CASE kind = "gamma"   -> CurvGammaBlock
      [] kind = "each"    -> ParaBlock(3, SubSeq(PARA_SRGB, 1, 5))
      [] kind = "cut"     -> CurvCutBlock
      [] kind = "linear"  -> CurvLinearBlock
      [] kind = "table"   -> CurvTableBlock
      [] kind = "para0"   -> ParaBlock(0, SubSeq(PARA_SRGB, 1, 1))
      [] kind = "para1"   -> ParaBlock(1, SubSeq(PARA_SRGB, 1, 3))
      [] kind = "para3"   -> ParaBlock(3, SubSeq(PARA_SRGB, 1, 5))
      [] kind = "para4"   -> ParaBlock(4, PARA_SRGB)
      [] kind = "paraCut" -> ParaBlock(3, SubSeq(PARA_SRGB, 1, 1))
      [] kind = "unknown" -> UnknownCurveBlock

Profiles ==
    [ xyz : SUBSET {"r", "g", "b"}, prim : PrimKinds, desc : DescKinds, trc : TrcKinds ]

ProfileEntries(p) ==
    (IF "r" \in p.xyz THEN << [sig |-> SIG_RXYZ, data |-> XYZBlock(Primaries(p.prim)[1])] >>
     ELSE << >>)
    \o (IF "g" \in p.xyz THEN << [sig |-> SIG_GXYZ, data |-> XYZBlock(Primaries(p.prim)[2])] >>
        ELSE << >>)
    \o (IF "b" \in p.xyz THEN << [sig |-> SIG_BXYZ, data |-> XYZBlock(Primaries(p.prim)[3])] >>
        ELSE << >>)
    \o (IF p.trc = "none" THEN << >>
        ELSE << [sig |-> SIG_RTRC, data |-> RedCurveBlock(p.trc)],
                [sig |-> SIG_GTRC, data |-> CurvGammaBlock] >>)
    \o (IF p.trc \notin {"none"} \cup TrcCutKinds
        THEN << [sig |-> SIG_BTRC, data |-> BlueCurveBlock(p.trc)] >> ELSE << >>)
    \o (CASE p.desc = "none"    -> << >>
          [] p.desc = "desc"    -> << [sig |-> SIG_DESC, data |-> DescBlock(TEXT_A)] >>
          [] p.desc = "mluc"    -> << [sig |-> SIG_DESC, data |-> MlucBlock(TEXT_B, 24)] >>
          [] p.desc = "descCut" -> << [sig |-> SIG_DESC, data |-> DescCutBlock] >>
          [] p.desc = "mlucFar" -> << [sig |-> SIG_DESC, data |-> MlucBlock(TEXT_B, 60000)] >>
          [] p.desc = "descEmpty" -> << [sig |-> SIG_DESC, data |-> DescBlock(<< >>)] >>
          [] p.desc = "descLong"  -> << [sig |-> SIG_DESC, data |-> DescLongBlock(TEXT_A)] >>
          [] p.desc = "descText"  -> << [sig |-> SIG_DESC, data |-> DescTextBlock(TEXT_A)] >>
          [] p.desc = "mlucZero"  -> << [sig |-> SIG_DESC, data |-> MlucZeroBlock] >>
          [] p.desc = "mlucEmpty" -> << [sig |-> SIG_DESC, data |-> MlucBlock(<< >>, 24)] >>)
    \o (IF p.trc \in TrcCutKinds /\ p.desc \notin {"descCut"}
        THEN << [sig |-> SIG_BTRC, data |-> BlueCurveBlock(p.trc)] >> ELSE << >>)

ICCBuffer(p) == MkICC(ProfileEntries(p))

-----------------------------------------------------------------------------
(* TRANSFER CURVES, HEX TEXT AND BASE64                                    *)

\* The decode closure parseTRC returns, by the kind of curve it captured.
DecodeCurve(trc, v) ==
    IF trc.kind = "srgb" THEN gammaToLinear(v)
    ELSE IF trc.kind = "linear" THEN v
    ELSE IF trc.kind = "gamma" THEN Pow(Max2(0, v), trc.g)
    ELSE IF trc.kind = "table" THEN
      LET count == Len(trc.table)
          x  == clamp01(v) * (count - 1)
          lo == x \div FP
          hi == Min2(lo + 1, count - 1)
      IN  trc.table[lo + 1] + FMul(trc.table[hi + 1] - trc.table[lo + 1], x - lo * FP)
    ELSE IF trc.kind = "para3" THEN
      IF v >= trc.d THEN Pow(FMul(trc.a, v) + trc.b, trc.g) ELSE FMul(trc.c, v)
    ELSE
      IF v >= trc.d THEN Pow(FMul(trc.a, v) + trc.b, trc.g) + trc.e
      ELSE FMul(trc.c, v) + trc.f

\* The channel argument of a call such as workingCS.decode(v).
UNDEFINED == -1

\* workingCS.decode(v, ch).  The profile's dispatch is if (ch === 0) rTRC,
\* if (ch === 1) gTRC, otherwise bTRC; a space built by createWorkingCS
\* ignores ch.
decode(cs, v, ch) ==
    DecodeCurve(cs.curves[IF ~cs.perChannelTRC THEN 1
                          ELSE IF ch = 0 THEN 1 ELSE IF ch = 1 THEN 2 ELSE 3], v)

\* clamped >= 0.0031308 ? 1.055 * (clamped ** (1 / 2.4)) - 0.055 : 12.92 * clamped;
\* 32 is the first fixed-point number that is not below 0.0031308.
linearToGamma(linearValue) ==
    LET clamped == Max2(0, Min2(FP, linearValue))
    IN  IF clamped >= 32 THEN FMul(10550, Pow(clamped, FDiv(FP, 24000))) - 550
        ELSE FMul(129200, clamped)

\* const invSize = 4096
INV_SIZE == 4096

\* target = i / (invSize - 1)
InverseTarget(i) == TDiv(i * FP, INV_SIZE - 1)

\* while (ti < count - 2 && table[ti + 1] < target) ti++: the index the scan
\* stops at when it is entered at ti.
RECURSIVE ScanAdvance(_, _, _)
ScanAdvance(table, ti, target) ==
    IF ti < Len(table) - 2 /\ table[ti + 2] < target
    THEN ScanAdvance(table, ti + 1, target) ELSE ti

\* invTable[i] = (ti + frac) / (count - 1) for the index ti the scan stopped at.
InverseEntry(table, ti, target) ==
    LET count == Len(table)
        t0 == table[ti + 1]
        t1 == table[Min2(ti + 1, count - 1) + 1]
        frac == IF t1 > t0 THEN FDiv(target - t0, t1 - t0) ELSE 0
    IN  TDiv(ti * FP + frac, count - 1)

\* invTable[i].  The targets grow with i, so the scan, which is entered at
\* the index the entry before left, stops where a scan entered at 0 stops.
InverseTable(table, i) ==
    InverseEntry(table, ScanAdvance(table, 0, InverseTarget(i)), InverseTarget(i))

\* const cutoff = c * d (function 3), c * d + f (function 4)
EncodeCutoff(trc) ==
    IF trc.kind = "para3" THEN FMul(trc.c, trc.d) ELSE FMul(trc.c, trc.d) + trc.f

\* A branch test that leaves the cutoff itself to the power law.
EncodeBranchBelowCutoff(trc, v) ==
    IF v < EncodeCutoff(trc) /\ trc.c # 0 THEN "linear" ELSE "power"

\* if (v <= cutoff && c !== 0) return <linear branch>; return <power law>
EncodeBranch(trc, v) ==
    IF v <= EncodeCutoff(trc) /\ trc.c # 0 THEN "linear" ELSE "power"

\* The encode closure parseTRC returns, by the kind of curve it captured.
EncodeCurve(trc, v) ==
    IF trc.kind = "srgb" THEN linearToGamma(v)
    ELSE IF trc.kind = "linear" THEN v
    ELSE IF trc.kind = "gamma" THEN Pow(Max2(0, v), FDiv(FP, trc.g))
    ELSE IF trc.kind = "table" THEN
      LET x  == Max2(0, Min2(FP, v)) * (INV_SIZE - 1)
          lo == x \div FP
          hi == Min2(lo + 1, INV_SIZE - 1)
      IN  InverseTable(trc.table, lo)
            + FMul(InverseTable(trc.table, hi) - InverseTable(trc.table, lo), x - lo * FP)
    ELSE IF trc.kind = "para3" THEN
      IF EncodeBranch(trc, v) = "linear" THEN FDiv(v, trc.c)
      ELSE FDiv(Pow(Max2(0, v), FDiv(FP, trc.g)) - trc.b, trc.a)
    ELSE
      IF EncodeBranch(trc, v) = "linear" THEN FDiv(v - trc.f, trc.c)
      ELSE FDiv(Pow(Max2(0, v - trc.e), FDiv(FP, trc.g)) - trc.b, trc.a)

\* workingCS.encode(v, ch), dispatched as decode is.
encode(cs, v, ch) ==
    EncodeCurve(cs.curves[IF ~cs.perChannelTRC THEN 1
                          ELSE IF ch = 0 THEN 1 ELSE IF ch = 1 THEN 2 ELSE 3], v)

\* The channels of a hex colour through the active space into OKLab, as the
\* working-hex field and the eyedropper do it: with the channel index when
\* the space is flagged perChannelTRC, without it otherwise.
WorkingRGBToOKLab(cs, rgb) ==
    LET lin == << decode(cs, rgb[1], IF cs.perChannelTRC THEN 0 ELSE UNDEFINED),
                  decode(cs, rgb[2], IF cs.perChannelTRC THEN 1 ELSE UNDEFINED),
                  decode(cs, rgb[3], IF cs.perChannelTRC THEN 2 ELSE UNDEFINED) >>
        s   == toLinearSRGB(cs, lin[1], lin[2], lin[3])
    IN  linearSRGBToOKLab(s[1], s[2], s[3])

NullRGB == << >>

\* Math.round of a fixed-point number: the nearest integer, halves upward.
MathRound(x) == (x + FP \div 2) \div FP

\* One digit of Number.prototype.toString(16): '0'..'9', 'a'..'f'.
HexChar(d) == IF d < 10 THEN 48 + d ELSE 87 + d

\* n.toString(16) for 0 <= n <= 255.
toString16(n) ==
    IF n < 16 THEN << HexChar(n) >> ELSE << HexChar(n \div 16), HexChar(n % 16) >>

\* text.padStart(2, '0')
padStart2(text) == IF Len(text) < 2 THEN << 48 >> \o text ELSE text

\* A byte formatter that leaves out the padding.
toByteHexUnpadded(value) == toString16(MathRound(clamp01(value) * 255))

\* Math.round(clamp01(value) * 255).toString(16).padStart(2, '0')
toByteHex(value) == padStart2(toString16(MathRound(clamp01(value) * 255)))

\* '#' + toByteHex(r) + toByteHex(g) + toByteHex(b)
rgbToHex(r, g, b) == << 35 >> \o toByteHex(r) \o toByteHex(g) \o toByteHex(b)

\* A hex text of the active space written without the channel index.
WorkingHexWithoutIndex(cs, lin) ==
    LET wc == fromLinearSRGB(cs, lin[1], lin[2], lin[3])
    IN  rgbToHex(encode(cs, wc[1], UNDEFINED), encode(cs, wc[2], UNDEFINED),
                 encode(cs, wc[3], UNDEFINED))

\* The hex text of a linear sRGB colour in the active space, as the info
\* panel and the lighting panel write it.
WorkingHex(cs, lin) ==
    LET wc == fromLinearSRGB(cs, lin[1], lin[2], lin[3])
    IN  rgbToHex(encode(cs, wc[1], IF cs.perChannelTRC THEN 0 ELSE UNDEFINED),
                 encode(cs, wc[2], IF cs.perChannelTRC THEN 1 ELSE UNDEFINED),
                 encode(cs, wc[3], IF cs.perChannelTRC THEN 2 ELSE UNDEFINED))

\* A parser whose pattern lacks the end anchor: six hex digits, then anything.
parseHexUnanchored(str) ==
    LET t == Trim(str)
        s == IF Len(t) > 0 /\ t[1] = 35 THEN Tail(t) ELSE t
    IN  IF Len(s) >= 6 /\ \A i \in 1..6 : HexDigit(s[i]) >= 0
        THEN << HexByte(s, 1), HexByte(s, 3), HexByte(s, 5) >>
        ELSE NullRGB

\* parseHex(str): <<r, g, b>>, or null when the text is not six hex digits
\* after trimming and dropping one leading '#'.
parseHex(str) ==
    LET t == Trim(str)
        s == IF Len(t) > 0 /\ t[1] = 35 THEN Tail(t) ELSE t
    IN  IF Len(s) = 6 /\ \A i \in 1..6 : HexDigit(s[i]) >= 0
        THEN << HexByte(s, 1), HexByte(s, 3), HexByte(s, 5) >>
        ELSE NullRGB

\* Base64 text is the sequence of its sextets, PAD standing for '='.
PAD == 64

\* btoa over the bytes of the buffer.
btoa(bytes) ==
    LET n == Len(bytes)
        B(j) == IF j < n THEN bytes[j + 1] ELSE 0
    IN  [i \in 1..(4 * ((n + 2) \div 3)) |->
          LET g == (i - 1) \div 4
              k == (i - 1) % 4
              b0 == B(3 * g)
              b1 == B(3 * g + 1)
              b2 == B(3 * g + 2)
          IN  IF k = 0 THEN b0 \div 4
              ELSE IF k = 1 THEN (b0 % 4) * 16 + b1 \div 16
              ELSE IF k = 2 THEN
                IF 3 * g + 1 < n THEN (b1 % 16) * 4 + b2 \div 64 ELSE PAD
              ELSE
                IF 3 * g + 2 < n THEN b2 % 64 ELSE PAD]

\* atob: padding is dropped from text whose length is a multiple of four;
\* what remains must hold no '=' and must not be 1 modulo 4 long.
AtobBody(s) ==
    LET n == Len(s)
    IN  IF n % 4 = 0 /\ n >= 2 /\ s[n] = PAD
        THEN (IF s[n - 1] = PAD THEN SubSeq(s, 1, n - 2) ELSE SubSeq(s, 1, n - 1))
        ELSE s

AtobThrows(s) ==
    LET body == AtobBody(s)
    IN  Len(body) % 4 = 1 \/ \E i \in 1..Len(body) : body[i] = PAD

atob(s) ==
    LET body == AtobBody(s)
        S(j) == IF j < Len(body) THEN body[j + 1] ELSE 0
    IN  [i \in 1..((Len(body) * 6) \div 8) |->
          LET g == (i - 1) \div 3
              r == (i - 1) % 3
          IN  IF r = 0 THEN S(4 * g) * 4 + S(4 * g + 1) \div 16
              ELSE IF r = 1 THEN (S(4 * g + 1) % 16) * 16 + S(4 * g + 2) \div 4
              ELSE (S(4 * g + 2) % 4) * 64 + S(4 * g + 3)]

-----------------------------------------------------------------------------
(* HISTORY STACKS (color-math.js) AND PERSISTENCE                          *)

HistoryNames == {"main", "albedo", "light"}

\* getActiveHistory(): the name of the stack it returns.
getActiveHistory(open, target) ==
    IF ~open THEN "main" ELSE IF target = "albedo" THEN "albedo" ELSE "light"

\* 1e-6 lies below one unit of resolution: only equal colours are duplicates.
HISTORY_EPSILON == 1
MAX_HISTORY == 200

IsDuplicate(last, colour) ==
    \A i \in 1..3 : Abs(last[i] - colour[i]) < HISTORY_EPSILON

\* A push that lets the stack grow without bound.
PushEntryUncapped(h, colour) ==
    [entries |-> Append(h.entries, colour), pos |-> Len(h.entries)]

\* The stack after pushColorToHistory() found no duplicate on top; pos
\* counts from 0 as in the source.
PushEntry(h, colour) ==
    LET pushed == Append(h.entries, colour)
        kept   == IF Len(pushed) > MAX_HISTORY THEN Tail(pushed) ELSE pushed
    IN  [entries |-> kept, pos |-> Len(kept) - 1]

SAVE_HISTORY_CAP == 50

capHistory(h) ==
    LET start == Max2(0, Len(h.entries) - SAVE_HISTORY_CAP)
    IN  [entries |-> SubSeq(h.entries, start + 1, Len(h.entries)),
         pos |-> Max2(0, h.pos - start)]

loadHistory(target, src) ==
    IF Len(src.entries) > 0
    THEN [entries |-> src.entries, pos |-> Min2(src.pos, Len(src.entries) - 1)]
    ELSE target

\* JSON.stringify / JSON.parse of the state object: every member is a finite
\* number, a string, a boolean, null or an array of those, and each of them
\* is read back as it was written.  The stored item is the text in its
\* envelope; a missing item is null.
JSONStringify(state) == [json |-> state]
JSONParse(raw) == raw.json

-----------------------------------------------------------------------------
(* APPLICATION STATE (state.js, persistence, interaction)                  *)

VARIABLES
    pc,                     \* "boot" before the start-up script ran, then "run"
    isDisplayP3Supported,   \* matchMedia('(color-gamut: p3)').matches
    workingCS,
    iccProfileBase64,
    current,                \* << currentL, currentA, currentB >>
    albedo,                 \* << albedoL, albedoA, albedoB >>
    light,                  \* << lightL, lightA, lightB >>
    lightIntensity,
    isLightingOpen,
    editTarget,
    histories,              \* historyMain, historyAlbedo, historyLight by name
    saveTimer,              \* TRUE while a debounced save is scheduled
    localStorage,           \* the item under STORAGE_KEY, or null
    pendingImports,         \* handleICCImport calls suspended at their await
    alert,                  \* the last alert shown, << >> when none
    dragging,               \* the controls whose isDragging flag is set
    isAnimationFramePending,
    frameEvent,             \* the event captured by the requested frame
    pickPending,            \* an EyeDropper promise is outstanding
    lastOp,                 \* the handler that ran last
    ops,                    \* user operations so far
    fnIn,                   \* argument of the function under study
    fnOut                   \* its result

vars == << pc, isDisplayP3Supported, workingCS, iccProfileBase64, current,
           albedo, light, lightIntensity, isLightingOpen, editTarget,
           histories, saveTimer, localStorage, pendingImports, alert,
           dragging, isAnimationFramePending, frameEvent, pickPending,
           lastOp, ops, fnIn, fnOut >>

csVars       == << workingCS, iccProfileBase64 >>
colourVars   == << current, albedo, light >>
lightingVars == << lightIntensity, isLightingOpen, editTarget >>
pointerVars  == << dragging, isAnimationFramePending, frameEvent >>
asyncVars    == << pendingImports, pickPending >>
envVars      == << isDisplayP3Supported, localStorage >>
fnVars       == << fnIn, fnOut >>

historyMain   == histories["main"]
historyAlbedo == histories["albedo"]
historyLight  == histories["light"]

INTENSITY_MAX == 10 * FP
AB_RANGE      == 4000
CHROMA_MAX    == 4000

\* A default that ignores what the display advertises.
DefaultWorkingCSNarrow(p3) == createSRGBWorkingCS

\* let workingCS = isDisplayP3Supported ? createP3WorkingCS() : createSRGBWorkingCS()
DefaultWorkingCS(p3) == IF p3 THEN createP3WorkingCS ELSE createSRGBWorkingCS

InitialHistory(colour) == [entries |-> << colour >>, pos |-> 0]

\* The script state as state.js and the interaction script construct it.
Constructed(p3) ==
    /\ workingCS = DefaultWorkingCS(p3)
    /\ iccProfileBase64 = NullStr
    /\ current = << 7000, 0, 0 >>
    /\ albedo = << 7000, 0, 0 >>
    /\ light = << FP, 0, 0 >>
    /\ lightIntensity = FP
    /\ isLightingOpen = FALSE
    /\ editTarget = "albedo"
    /\ histories = [n \in HistoryNames |->
                      InitialHistory(IF n = "light" THEN << FP, 0, 0 >> ELSE << 7000, 0, 0 >>)]
    /\ saveTimer = FALSE
    /\ pendingImports = {}
    /\ alert = << >>
    /\ dragging = {}
    /\ isAnimationFramePending = FALSE
    /\ frameEvent = NullObj
    /\ pickPending = FALSE

\* Files the user can choose in the import dialog.
FILE_NARROW   == [xyz |-> {"r", "g", "b"}, prim |-> "narrow", desc |-> "mluc", trc |-> "gamma"]
FILE_SRGB     == [xyz |-> {"r", "g", "b"}, prim |-> "srgb", desc |-> "desc", trc |-> "none"]
FILE_NO_GXYZ  == [xyz |-> {"r", "b"}, prim |-> "srgb", desc |-> "desc", trc |-> "gamma"]
FILE_SINGULAR == [xyz |-> {"r", "g", "b"}, prim |-> "singular", desc |-> "none", trc |-> "gamma"]
FILE_CUT      == [xyz |-> {"r", "g", "b"}, prim |-> "srgb", desc |-> "descCut", trc |-> "none"]
ImportFiles   == {FILE_NARROW, FILE_SRGB, FILE_NO_GXYZ, FILE_SINGULAR, FILE_CUT}

\* Text that is not Base64: its length is 1 modulo 4.
NOT_BASE64 == << 0, 1, 2, 3, 4 >>

\* Items a different build of the application, or another writer of the
\* storage, can have left under STORAGE_KEY: a complete state whose profile
\* text does not parse.
StaleState(icc) ==
    [ current |-> << 5000, 1000, 0 >>,
      albedo |-> << 6000, 0, 500 >>,
      light |-> << 9000, 0, 1000 >>,
      lightIntensity |-> 2 * FP,
      editTarget |-> "light",
      isLightingOpen |-> TRUE,
      historyMain |-> [entries |-> << << 7000, 0, 0 >>, << 5000, 1000, 0 >> >>, pos |-> 1],
      historyAlbedo |-> [entries |-> << << 7000, 0, 0 >>, << 6000, 0, 500 >> >>, pos |-> 0],
      historyLight |-> [entries |-> << << FP, 0, 0 >>, << 9000, 0, 1000 >> >>, pos |-> 1],
      iccProfileBase64 |-> icc ]

StaleItems ==
    { JSONStringify(StaleState(icc)) : icc \in {btoa(ICCBuffer(FILE_NO_GXYZ)), NOT_BASE64} }

Init ==
    /\ pc = "boot"
    /\ isDisplayP3Supported \in BOOLEAN
    /\ Constructed(isDisplayP3Supported)
    /\ localStorage \in {NullObj} \cup StaleItems
    /\ lastOp = "construct"
    /\ ops = 0
    /\ fnIn = NullObj
    /\ fnOut = NullObj

-----------------------------------------------------------------------------
(* HANDLERS                                                                *)

MaxOps == 2

\* A handler the user starts, and a callback the runtime delivers.
UserOp(kind) == pc = "run" /\ ops < MaxOps /\ ops' = ops + 1 /\ lastOp' = kind
Callback(kind) == pc = "run" /\ ops' = ops /\ lastOp' = kind

\* A write that takes albedo for the edit target whatever the tab.
writePickerToAlbedo(colour) ==
    [ albedo |-> IF isLightingOpen THEN colour ELSE albedo, light |-> light ]

\* writePickerToEditTarget() after the picker colour became colour.
writePickerToEditTarget(colour) ==
    [ albedo |-> IF isLightingOpen /\ editTarget = "albedo" THEN colour ELSE albedo,
      light  |-> IF isLightingOpen /\ editTarget # "albedo" THEN colour ELSE light ]

\* syncPickerToEditTarget(): the picker colour it leaves.
syncPickerToEditTarget(open, target, cur, alb, lgt) ==
    IF ~open THEN cur ELSE IF target = "albedo" THEN alb ELSE lgt

\* pushColorToHistory() with the picker colour colour: the stacks it leaves
\* and whether it scheduled a save.
pushColorToHistory(colour) ==
    LET n == getActiveHistory(isLightingOpen, editTarget)
        h == histories[n]
        dup == Len(h.entries) > 0 /\ IsDuplicate(h.entries[Len(h.entries)], colour)
    IN  [ histories |-> IF dup THEN histories
                        ELSE [histories EXCEPT ![n] = PushEntry(h, colour)],
          saved |-> ~dup ]

\* The ICC block of restoreState(): what parsing the persisted text yields.
RestoredProfile(text) ==
    IF AtobThrows(text) THEN Thrown("InvalidCharacterError")
    ELSE parseICCProfile(atob(text))

\* A restore that adopts the persisted text before knowing that it parses.
RestoredBase64Always(parsed, text, old) == text

\* workingCS = parseICCProfile(bytes.buffer); iccProfileBase64 =
\* s.iccProfileBase64, inside the inner try: neither assignment runs when
\* atob or the parser throws.
RestoredCS(parsed, cs) == IF parsed.ok THEN parsed.cs ELSE cs
RestoredBase64(parsed, text, old) == IF parsed.ok THEN text ELSE old

\* restoreState(); updateWorkingCSDisplay(); renderAll()
Startup ==
    /\ pc = "boot"
    /\ pc' = "run"
    /\ lastOp' = "restore"
    /\ IF localStorage = NullObj
       THEN UNCHANGED << csVars, colourVars, lightingVars, histories >>
       ELSE
         LET s == JSONParse(localStorage)
             hasICC == s.iccProfileBase64 # NullStr /\ Len(s.iccProfileBase64) > 0
             parsed == IF hasICC THEN RestoredProfile(s.iccProfileBase64)
                       ELSE Thrown("")
         IN  /\ albedo' = s.albedo
             /\ light' = s.light
             /\ lightIntensity' = s.lightIntensity
             /\ editTarget' = s.editTarget
             /\ histories' = [ main   |-> loadHistory(histories["main"], s.historyMain),
                               albedo |-> loadHistory(histories["albedo"], s.historyAlbedo),
                               light  |-> loadHistory(histories["light"], s.historyLight) ]
             /\ workingCS' = RestoredCS(parsed, workingCS)
             /\ iccProfileBase64' = RestoredBase64(parsed, s.iccProfileBase64,
                                                   iccProfileBase64)
             /\ isLightingOpen' = (s.isLightingOpen \/ isLightingOpen)
             /\ current' = syncPickerToEditTarget(s.isLightingOpen, s.editTarget,
                                                  s.current, s.albedo, s.light)
    /\ UNCHANGED << envVars, saveTimer, asyncVars, alert, pointerVars, ops, fnVars >>

\* The window is closed and the application started again: script state is
\* constructed anew, timers and suspended calls are gone, storage stays.
Restart ==
    /\ UserOp("restart")
    /\ pc' = "boot"
    /\ workingCS' = DefaultWorkingCS(isDisplayP3Supported)
    /\ iccProfileBase64' = NullStr
    /\ current' = << 7000, 0, 0 >>
    /\ albedo' = << 7000, 0, 0 >>
    /\ light' = << FP, 0, 0 >>
    /\ lightIntensity' = FP
    /\ isLightingOpen' = FALSE
    /\ editTarget' = "albedo"
    /\ histories' = [n \in HistoryNames |->
                      InitialHistory(IF n = "light" THEN << FP, 0, 0 >> ELSE << 7000, 0, 0 >>)]
    /\ saveTimer' = FALSE
    /\ pendingImports' = {}
    /\ alert' = << >>
    /\ dragging' = {}
    /\ isAnimationFramePending' = FALSE
    /\ frameEvent' = NullObj
    /\ pickPending' = FALSE
    /\ UNCHANGED << envVars, fnVars >>

\* setTimeout(saveState, 500) fires.
SaveTimerFires ==
    /\ Callback("save")
    /\ saveTimer
    /\ saveTimer' = FALSE
    /\ localStorage' = JSONStringify(
         [ current |-> current, albedo |-> albedo, light |-> light,
           lightIntensity |-> lightIntensity,
           editTarget |-> editTarget,
           isLightingOpen |-> isLightingOpen,
           historyMain |-> capHistory(histories["main"]),
           historyAlbedo |-> capHistory(histories["albedo"]),
           historyLight |-> capHistory(histories["light"]),
           iccProfileBase64 |-> iccProfileBase64 ])
    /\ UNCHANGED << pc, isDisplayP3Supported, csVars, colourVars, lightingVars,
                    histories, asyncVars, alert, pointerVars, fnVars >>

\* handleICCImport(input) up to its await; an empty selection returns at once.
ImportNoFile ==
    /\ UserOp("importNoFile")
    /\ UNCHANGED << pc, envVars, csVars, colourVars, lightingVars, histories,
                    saveTimer, asyncVars, alert, pointerVars, fnVars >>

ImportStart(file) ==
    /\ UserOp("importStart")
    /\ file \notin pendingImports
    /\ pendingImports' = pendingImports \cup {file}
    /\ UNCHANGED << pc, envVars, csVars, colourVars, lightingVars, histories,
                    saveTimer, alert, pointerVars, pickPending, fnVars >>

ImportAlert(message) == << "Failed to load ICC profile:", message >>

\* An import that publishes whatever the parser left, and one that caches
\* the bytes of the file before knowing that they parse.
ImportedCSAlways(parsed, cs) == parsed.cs
ImportedBase64Always(parsed, buffer, old) == btoa(buffer)

\* workingCS = parseICCProfile(buffer); iccProfileBase64 = btoa(binary),
\* inside the try: neither assignment runs when the parser throws.
ImportedCS(parsed, cs) == IF parsed.ok THEN parsed.cs ELSE cs
\* An import that does not cache the bytes.
ImportedBase64Never(parsed, buffer, old) == old
ImportedBase64(parsed, buffer, old) == IF parsed.ok THEN btoa(buffer) ELSE old

\* handleICCImport resumes with the buffer: the try block, or its catch when
\* parseICCProfile throws.
ImportResume(file) ==
    /\ file \in pendingImports
    /\ pendingImports' = pendingImports \ {file}
    /\ LET buffer == ICCBuffer(file)
           parsed == parseICCProfile(buffer)
       IN  /\ workingCS' = ImportedCS(parsed, workingCS)
           /\ iccProfileBase64' = ImportedBase64(parsed, buffer, iccProfileBase64)
           /\ IF parsed.ok
              THEN /\ Callback("importOk")
                   /\ current' = syncPickerToEditTarget(isLightingOpen, editTarget,
                                                        current, albedo, light)
                   /\ saveTimer' = TRUE
                   /\ alert' = alert
              ELSE /\ Callback("importFail")
                   /\ alert' = ImportAlert(parsed.err)
                   /\ UNCHANGED << current, saveTimer >>
    /\ UNCHANGED << pc, envVars, albedo, light, lightingVars, histories,
                    pointerVars, pickPending, fnVars >>

\* file.arrayBuffer() rejects: the catch block runs without a parse.
ImportReadFails(file) ==
    /\ Callback("importFail")
    /\ file \in pendingImports
    /\ pendingImports' = pendingImports \ {file}
    /\ alert' = ImportAlert("NotReadableError")
    /\ UNCHANGED << pc, envVars, csVars, colourVars, lightingVars, histories,
                    saveTimer, pointerVars, pickPending, fnVars >>

\* resetWorkingCS()
resetWorkingCS ==
    /\ UserOp("reset")
    /\ workingCS' = DefaultWorkingCS(isDisplayP3Supported)
    /\ iccProfileBase64' = NullStr
    /\ current' = syncPickerToEditTarget(isLightingOpen, editTarget, current, albedo, light)
    /\ saveTimer' = TRUE
    /\ UNCHANGED << pc, envVars, albedo, light, lightingVars, histories,
                    asyncVars, alert, pointerVars, fnVars >>

\* Pointer positions relative to the control, (clientX - left) / width and
\* (clientY - top) / height.
PointerEvents == { [x |-> FP, y |-> FP \div 2], [x |-> 2500, y |-> 2500] }

ColourControls == {"ab", "lightness", "chroma", "hue"}
Controls == ColourControls \cup {"intensity"}

\* update<Control>FromPointer(event) on the picker colour c: each of the four
\* maps the pointer to a target (L, a, b) and ends in
\* [currentA, currentB] = clampToWorkingGamut(currentL, targetA, targetB).
UpdateFromPointer(control, event, c) ==
    LET nx == clamp01(event.x)
        ny == clamp01(event.y)
        ch == oklabToOklch(c[2], c[3])
        target ==
          IF control = "ab"
          THEN << c[1], FMul(nx, 2 * AB_RANGE) - AB_RANGE,
                  AB_RANGE - FMul(ny, 2 * AB_RANGE) >>
          ELSE IF control = "lightness" THEN << nx, c[2], c[3] >>
          ELSE IF control = "chroma"
          THEN << c[1] >> \o oklchToOklab(FMul(nx, CHROMA_MAX), ch[2])
          ELSE << c[1] >> \o oklchToOklab(ch[1], TDiv(nx * 360, FP))
    IN  << target[1] >> \o
        clampToWorkingGamut(workingCS, target[1], target[2], target[3])

updateIntensityFromPointer(event) ==
    Max2(0, Min2(INTENSITY_MAX, FMul(event.x, INTENSITY_MAX)))

\* pointerdown on one of the five controls.
PointerDown(control, event) ==
    /\ UserOp("pointerDown")
    /\ dragging' = dragging \cup {control}
    /\ IF control = "intensity"
       THEN /\ lightIntensity' = updateIntensityFromPointer(event)
            /\ UNCHANGED colourVars
       ELSE \E c \in {UpdateFromPointer(control, event, current)} :
                /\ current' = c
                /\ albedo' = writePickerToEditTarget(c).albedo
                /\ light' = writePickerToEditTarget(c).light
                /\ UNCHANGED lightIntensity
    /\ UNCHANGED << pc, envVars, csVars, isLightingOpen, editTarget, histories,
                    saveTimer, asyncVars, alert, isAnimationFramePending,
                    frameEvent, fnVars >>

\* pointermove: returns unless a drag is on and no frame is requested yet.
PointerMove(event) ==
    /\ UserOp("pointerMove")
    /\ IF dragging = {} \/ isAnimationFramePending
       THEN UNCHANGED << isAnimationFramePending, frameEvent >>
       ELSE isAnimationFramePending' = TRUE /\ frameEvent' = event
    /\ UNCHANGED << pc, envVars, csVars, colourVars, lightingVars, histories,
                    saveTimer, asyncVars, alert, dragging, fnVars >>

\* One step of the frame callback: the update of control when it is being
\* dragged, on the colour c the earlier steps left.
FrameStep(control, c) ==
    IF control \in dragging THEN UpdateFromPointer(control, frameEvent, c) ELSE c

\* The requestAnimationFrame callback.
AnimationFrame ==
    /\ Callback("frame")
    /\ isAnimationFramePending
    /\ isAnimationFramePending' = FALSE
    /\ frameEvent' = NullObj
    /\ IF dragging \cap ColourControls # {}
       THEN \E c1 \in {FrameStep("ab", current)} :
            \E c2 \in {FrameStep("lightness", c1)} :
            \E c3 \in {FrameStep("chroma", c2)} :
            \E c \in {FrameStep("hue", c3)} :
                /\ current' = c
                /\ albedo' = writePickerToEditTarget(c).albedo
                /\ light' = writePickerToEditTarget(c).light
       ELSE UNCHANGED colourVars
    /\ lightIntensity' = IF "intensity" \in dragging
                         THEN updateIntensityFromPointer(frameEvent)
                         ELSE lightIntensity
    /\ UNCHANGED << pc, envVars, csVars, isLightingOpen, editTarget, histories,
                    saveTimer, asyncVars, alert, dragging, fnVars >>

\* pointerup: ends every drag and commits the colour to the history.
PointerUp ==
    /\ UserOp("pointerUp")
    /\ dragging' = {}
    /\ LET wasDragging == dragging \cap ColourControls # {}
           wasIntensity == "intensity" \in dragging
           pushed == pushColorToHistory(current)
       IN  /\ histories' = IF wasDragging THEN pushed.histories ELSE histories
           /\ saveTimer' = (saveTimer \/ (wasDragging /\ pushed.saved) \/ wasIntensity)
    /\ UNCHANGED << pc, envVars, csVars, colourVars, lightingVars, asyncVars,
                    alert, isAnimationFramePending, frameEvent, fnVars >>

\* commitEditedColor(newL, newA, newB)
commitEditedColor(newL, newA, newB) ==
    LET c == << clamp01(newL), newA, newB >>
    IN  /\ current' = c
        /\ albedo' = writePickerToEditTarget(c).albedo
        /\ light' = writePickerToEditTarget(c).light
        /\ histories' = pushColorToHistory(c).histories
        /\ saveTimer' = TRUE

\* What parseFloat(el.textContent) can yield for a field.
ParsedFloats(field) ==
    { [nan |-> TRUE, v |-> 0],
      [nan |-> FALSE, v |-> IF field = "val-h" THEN 90 * FP ELSE 5000],
      [nan |-> FALSE, v |-> -2000] }

NumberFields == {"val-L", "val-a", "val-b", "val-C", "val-h"}

\* A test that takes every parsed text for a number.
isNaNNever(parsed) == FALSE

\* isNaN(v) on what parseFloat returned.
isNaN(parsed) == parsed.nan

\* What a commit of a text leaves in lastOp: whether the text parsed.
CommitKind(failed) == IF failed THEN "commitIgnored" ELSE "commit"

\* The blur handlers of the OKLab and OKLCH number fields.
CommitNumberField(field, parsed) ==
    /\ UserOp(CommitKind(parsed.nan))
    /\ IF isNaN(parsed) THEN UNCHANGED << colourVars, histories, saveTimer >>
       ELSE LET ch == oklabToOklch(current[2], current[3])
                viaC == oklchToOklab(parsed.v, ch[2])
                viaH == oklchToOklab(ch[1], TDiv(parsed.v, FP))
            IN  IF field = "val-L" THEN commitEditedColor(parsed.v, current[2], current[3])
                ELSE IF field = "val-a" THEN commitEditedColor(current[1], parsed.v, current[3])
                ELSE IF field = "val-b" THEN commitEditedColor(current[1], current[2], parsed.v)
                ELSE IF field = "val-C" THEN commitEditedColor(current[1], viaC[1], viaC[2])
                ELSE commitEditedColor(current[1], viaH[1], viaH[2])
    /\ UNCHANGED << pc, envVars, csVars, lightingVars, asyncVars, alert,
                    pointerVars, fnVars >>

HEX_ORANGE == << 35, 102, 102, 56, 48, 52, 48 >>      \* "#ff8040"
HEX_SHORT  == << 49, 50, 51, 52, 53 >>                \* "12345"
HEX_EMPTY  == << >>                                   \* "" (after Escape)
HexTexts   == {HEX_ORANGE, HEX_SHORT, HEX_EMPTY}
HexFields  == {"srgb-hex", "display-p3-hex", "working-hex"}

\* The OKLab colour a hex field derives from the parsed channels.
HexFieldColour(field, rgb) ==
    LET lin == << gammaToLinear(rgb[1]), gammaToLinear(rgb[2]), gammaToLinear(rgb[3]) >>
        viaP3 == linearP3ToLinearSRGB(lin[1], lin[2], lin[3])
    IN  IF field = "srgb-hex" THEN linearSRGBToOKLab(lin[1], lin[2], lin[3])
        ELSE IF field = "display-p3-hex"
             THEN linearSRGBToOKLab(viaP3[1], viaP3[2], viaP3[3])
        ELSE WorkingRGBToOKLab(workingCS, rgb)

\* The blur handlers of the three hex fields.
CommitHexField(field, text) ==
    /\ UserOp(CommitKind(parseHex(text) = NullRGB))
    /\ LET rgb == parseHex(text)
       IN  IF rgb = NullRGB THEN UNCHANGED << colourVars, histories, saveTimer >>
           ELSE LET c == HexFieldColour(field, rgb)
                IN  commitEditedColor(c[1], c[2], c[3])
    /\ UNCHANGED << pc, envVars, csVars, lightingVars, asyncVars, alert,
                    pointerVars, fnVars >>

\* What the oklab(...) pattern and its three parseFloat calls can yield.
CssMatches == { [match |-> FALSE, nan |-> FALSE, L |-> 0, a |-> 0, b |-> 0],
                [match |-> TRUE, nan |-> TRUE, L |-> 0, a |-> 1000, b |-> -500],
                [match |-> TRUE, nan |-> FALSE, L |-> 6000, a |-> 1000, b |-> -500] }

\* The blur handler of the CSS oklab() field.
CommitCssOklab(m) ==
    /\ UserOp(CommitKind(~m.match \/ m.nan))
    /\ IF ~m.match \/ m.nan THEN UNCHANGED << colourVars, histories, saveTimer >>
       ELSE commitEditedColor(m.L, m.a, m.b)
    /\ UNCHANGED << pc, envVars, csVars, lightingVars, asyncVars, alert,
                    pointerVars, fnVars >>

IntensityInputs == { [nan |-> TRUE, v |-> 0], [nan |-> FALSE, v |-> -FP],
                     [nan |-> FALSE, v |-> 25 * FP] }

\* The blur handler of the intensity field.
CommitIntensity(parsed) ==
    /\ UserOp("commitIntensity")
    /\ IF isNaN(parsed) \/ parsed.v < 0 THEN UNCHANGED << lightIntensity, saveTimer >>
       ELSE lightIntensity' = Min2(parsed.v, INTENSITY_MAX) /\ saveTimer' = TRUE
    /\ UNCHANGED << pc, envVars, csVars, colourVars, isLightingOpen, editTarget,
                    histories, asyncVars, alert, pointerVars, fnVars >>

\* pickColor() up to its await; a second dropper while one is open is
\* rejected and caught.
PickStart ==
    /\ UserOp("pickStart")
    /\ pickPending' = TRUE
    /\ UNCHANGED << pc, envVars, csVars, colourVars, lightingVars, histories,
                    saveTimer, pendingImports, alert, pointerVars, fnVars >>

PickedHex == { HEX_ORANGE, << 35, 48, 48, 56, 48, 102, 102 >> }   \* "#0080ff"

\* pickColor() resumes with the sampled colour.
PickResolve(hex) ==
    /\ Callback("pick")
    /\ pickPending
    /\ pickPending' = FALSE
    /\ LET c == WorkingRGBToOKLab(workingCS,
                  << HexByte(hex, 2), HexByte(hex, 4), HexByte(hex, 6) >>)
           pushed == pushColorToHistory(c)
       IN  /\ current' = c
           /\ albedo' = writePickerToEditTarget(c).albedo
           /\ light' = writePickerToEditTarget(c).light
           /\ histories' = pushed.histories
           /\ saveTimer' = (saveTimer \/ pushed.saved)
    /\ UNCHANGED << pc, envVars, csVars, lightingVars, pendingImports, alert,
                    pointerVars, fnVars >>

\* A cancelled pick that falls back to the sRGB space.
PickCancelDropsSpace ==
    /\ Callback("pickCancel")
    /\ pickPending
    /\ pickPending' = FALSE
    /\ workingCS' = createSRGBWorkingCS
    /\ UNCHANGED << pc, envVars, iccProfileBase64, colourVars, lightingVars,
                    histories, saveTimer, pendingImports, alert, pointerVars, fnVars >>

\* The user cancels the dropper: the promise rejects into the empty catch.
PickCancel ==
    /\ Callback("pickCancel")
    /\ pickPending
    /\ pickPending' = FALSE
    /\ UNCHANGED << pc, envVars, csVars, colourVars, lightingVars, histories,
                    saveTimer, pendingImports, alert, pointerVars, fnVars >>

\* historyBack() (step = -1) and historyForward() (step = 1), with
\* applyHistoryEntry when the position moved.
HistoryStep(step) ==
    /\ UserOp("history")
    /\ LET n == getActiveHistory(isLightingOpen, editTarget)
           h == histories[n]
           pos == h.pos + step
       IN  IF pos >= 0 /\ pos <= Len(h.entries) - 1
           THEN LET c == h.entries[pos + 1]
                IN  /\ histories' = [histories EXCEPT ![n].pos = pos]
                    /\ current' = c
                    /\ albedo' = writePickerToEditTarget(c).albedo
                    /\ light' = writePickerToEditTarget(c).light
                    /\ saveTimer' = TRUE
           ELSE UNCHANGED << histories, colourVars, saveTimer >>
    /\ UNCHANGED << pc, envVars, csVars, lightingVars, asyncVars, alert,
                    pointerVars, fnVars >>

historyBack == HistoryStep(-1)
historyForward == HistoryStep(1)

\* setEditTarget(target), from the tabs and swatches of the open panel.
setEditTarget(target) ==
    /\ UserOp("setEditTarget")
    /\ isLightingOpen
    /\ editTarget' = target
    /\ current' = syncPickerToEditTarget(isLightingOpen, target, current, albedo, light)
    /\ saveTimer' = TRUE
    /\ UNCHANGED << pc, envVars, csVars, albedo, light, lightIntensity,
                    isLightingOpen, histories, asyncVars, alert, pointerVars, fnVars >>

\* toggleLightingPanel()
toggleLightingPanel ==
    /\ UserOp("toggleLighting")
    /\ isLightingOpen' = ~isLightingOpen
    /\ albedo' = IF ~isLightingOpen THEN current ELSE albedo
    /\ editTarget' = IF ~isLightingOpen THEN "albedo" ELSE editTarget
    /\ saveTimer' = TRUE
    /\ UNCHANGED << pc, envVars, csVars, current, light, lightIntensity,
                    histories, asyncVars, alert, pointerVars, fnVars >>

Next ==
    \/ Startup
    \/ Restart
    \/ SaveTimerFires
    \/ ImportNoFile
    \/ \E file \in ImportFiles : ImportStart(file)
    \/ \E file \in ImportFiles : ImportResume(file)
    \/ \E file \in ImportFiles : ImportReadFails(file)
    \/ resetWorkingCS
    \/ \E control \in Controls, event \in PointerEvents : PointerDown(control, event)
    \/ \E event \in PointerEvents : PointerMove(event)
    \/ AnimationFrame
    \/ PointerUp
    \/ \E field \in NumberFields : \E parsed \in ParsedFloats(field) :
          CommitNumberField(field, parsed)
    \/ \E field \in HexFields, text \in HexTexts : CommitHexField(field, text)
    \/ \E m \in CssMatches : CommitCssOklab(m)
    \/ \E parsed \in IntensityInputs : CommitIntensity(parsed)
    \/ PickStart
    \/ \E hex \in PickedHex : PickResolve(hex)
    \/ PickCancel
    \/ historyBack
    \/ historyForward
    \/ setEditTarget("albedo")
    \/ setEditTarget("light")
    \/ toggleLightingPanel

Spec == Init /\ [][Next]_vars

-----------------------------------------------------------------------------
(* THE WORKING-SPACE LIFECYCLE                                             *)

ExpectedDefault ==
    IF isDisplayP3Supported THEN createP3WorkingCS ELSE createSRGBWorkingCS

\* The state object the stored item holds, when there is one.
Persisted == JSONParse(localStorage)
HasPersistedProfile ==
    /\ localStorage # NullObj
    /\ Persisted.iccProfileBase64 # NullStr
    /\ Len(Persisted.iccProfileBase64) > 0

\* C1: when the parser throws for the selected file, or the file cannot be
\* read, workingCS and iccProfileBase64 keep their values and the failure
\* is shown to the user in an alert.
C1_FailedImportKeepsSpaceAndReports ==
    [][ lastOp' = "importFail" =>
          /\ workingCS' = workingCS
          /\ iccProfileBase64' = iccProfileBase64
          /\ Len(alert') = 2
          /\ alert'[1] = "Failed to load ICC profile:" ]_vars

C1_Witness ==
    /\ lastOp = "importFail"
    /\ alert = ImportAlert(ERR_SINGULAR)
    /\ workingCS.perChannelTRC
    /\ iccProfileBase64 = btoa(ICCBuffer(FILE_NARROW))

\* C4: in every reachable state the active workingCS is a fully constructed
\* working colour space, never null and never partially built.
C4_WorkingCSAlwaysConstructed == IsWorkingCS(workingCS)

C4_Witness ==
    /\ lastOp = "reset"
    /\ pendingImports # {}
    /\ pc = "run"

\* C5: before the start-up script restores anything, after a start-up that
\* restored no profile, and after every resetWorkingCS, the active space is
\* the Display P3 instance when the display is wide-gamut and the sRGB
\* instance otherwise; after a reset iccProfileBase64 is null.
C5_DefaultAtStartupAndAfterReset ==
    /\ pc = "boot" => workingCS = ExpectedDefault
    /\ (lastOp = "restore" /\ iccProfileBase64 = NullStr) => workingCS = ExpectedDefault
    /\ lastOp = "reset" => (workingCS = ExpectedDefault /\ iccProfileBase64 = NullStr)

C5_Witness ==
    /\ lastOp = "reset"
    /\ isDisplayP3Supported
    /\ HasPersistedProfile
    /\ Persisted.iccProfileBase64 = btoa(ICCBuffer(FILE_NARROW))

\* C6: after restoreState found a persisted profile: when its bytes parse,
\* workingCS is the space parsed from them and iccProfileBase64 is the
\* persisted text; when they do not, workingCS is the start-up default and
\* iccProfileBase64 is null; either way colours, history stacks and
\* lighting state are the saved ones.
C6_RestoreAdoptsProfileOrKeepsDefault ==
    (lastOp = "restore" /\ HasPersistedProfile) =>
        LET s == Persisted
            parsed == RestoredProfile(s.iccProfileBase64)
        IN  /\ IF parsed.ok
               THEN workingCS = parsed.cs /\ iccProfileBase64 = s.iccProfileBase64
               ELSE workingCS = ExpectedDefault /\ iccProfileBase64 = NullStr
            /\ albedo = s.albedo /\ light = s.light
            /\ current = (IF ~s.isLightingOpen THEN s.current
                          ELSE IF s.editTarget = "albedo" THEN s.albedo ELSE s.light)
            /\ lightIntensity = s.lightIntensity
            /\ editTarget = s.editTarget
            /\ isLightingOpen = s.isLightingOpen
            /\ histories["main"] = s.historyMain
            /\ histories["albedo"] = s.historyAlbedo
            /\ histories["light"] = s.historyLight

C6_Witness ==
    /\ lastOp = "restore"
    /\ HasPersistedProfile
    /\ workingCS.perChannelTRC
    /\ iccProfileBase64 = Persisted.iccProfileBase64
    /\ workingCS = parseICCProfile(ICCBuffer(FILE_NARROW)).cs

\* C7: a step changes workingCS only when it is a successful import, a
\* reset, the restore of the start-up script or the construction of the
\* script state; every other handler leaves the space, and each of its
\* fields, as it was.
C7_OnlyLifecycleStepsChangeSpace ==
    [][ workingCS' # workingCS =>
          lastOp' \in {"importOk", "reset", "restore", "restart"} ]_vars

C7_Witness ==
    /\ lastOp = "pick"
    /\ workingCS.perChannelTRC
    /\ current # << 7000, 0, 0 >>

-----------------------------------------------------------------------------
(* THE EDITABLE FIELDS                                                     *)

\* C15: committing a text that fails to parse, the emptied text that Escape
\* leaves included, in any of the fields L, a, b, C, h, the three hex fields
\* and the CSS oklab value leaves the picker colour, the albedo and light
\* colours and every history stack unchanged and schedules no save.
C15_UnparsableTextChangesNothing ==
    [][ lastOp' = "commitIgnored" =>
          /\ current' = current /\ albedo' = albedo /\ light' = light
          /\ histories' = histories
          /\ saveTimer' = saveTimer ]_vars

C15_Witness ==
    /\ lastOp = "commitIgnored"
    /\ ~saveTimer
    /\ current # << 7000, 0, 0 >>
    /\ isLightingOpen

-----------------------------------------------------------------------------
(* parseICCProfile AS A FUNCTION OF THE BUFFER                             *)

\* The application is idle in its constructed state while the function under
\* study is applied to fnIn.
Idle ==
    /\ isDisplayP3Supported = FALSE
    /\ Constructed(FALSE)
    /\ localStorage = NullObj
    /\ lastOp = "construct"
    /\ ops = 0

appVars == << isDisplayP3Supported, workingCS, iccProfileBase64, current,
              albedo, light, lightIntensity, isLightingOpen, editTarget,
              histories, saveTimer, localStorage, pendingImports, alert,
              dragging, isAnimationFramePending, frameEvent, pickPending,
              lastOp, ops >>

InitParse ==
    /\ pc = "parse"
    /\ Idle
    /\ fnIn \in { [profile |-> p] : p \in Profiles }
    /\ fnOut = NullObj

ParseProfile ==
    /\ pc = "parse"
    /\ fnOut = NullObj
    /\ fnOut' = parseICCProfile(ICCBuffer(fnIn.profile))
    /\ UNCHANGED << pc, appVars, fnIn >>

NextParse == ParseProfile

SpecParse == InitParse /\ [][NextParse]_vars

Parsed == pc = "parse" /\ fnOut # NullObj
ParsedBuffer == ICCBuffer(fnIn.profile)
ParsedTags == TagEntries(ParsedBuffer)

\* C2: every buffer whose tag table lacks one of rXYZ, gXYZ, bXYZ makes
\* parseICCProfile fail with 'Not a matrix-based RGB profile (missing XYZ
\* tags)', whatever its other tags, desc and the TRC tags included, contain.
C2_MissingXYZIsExplicitError ==
    (Parsed /\ ~HasXYZTags(ParsedTags))
        => (~fnOut.ok /\ fnOut.err = ERR_NO_XYZ)

\* C3: parseICCProfile fails with 'Singular matrix in ICC profile' exactly
\* when the three XYZ tags are present and the forward matrix derived from
\* them has determinant magnitude below 1e-15.
C3_SingularExactlyWhenDetBelowEpsilon ==
    Parsed =>
        ( (~fnOut.ok /\ fnOut.err = ERR_SINGULAR)
            <=> ( /\ HasXYZTags(ParsedTags)
                  /\ mat3Singular(ForwardMatrix(ParsedBuffer, ParsedTags)) ) )

\* The three XYZ tags are present, can be read, and give a matrix that can
\* be inverted.
ValidXYZTags(buf, tags) ==
    /\ HasXYZTags(tags)
    /\ ~XYZTagThrows(buf, TagOf(tags, SIG_RXYZ))
    /\ ~XYZTagThrows(buf, TagOf(tags, SIG_GXYZ))
    /\ ~XYZTagThrows(buf, TagOf(tags, SIG_BXYZ))
    /\ ~mat3Singular(ForwardMatrix(buf, tags))

\* Every TRC tag of the buffer can be read to its end.
CurvesReadable(buf, tags) ==
    /\ ChannelTRC(buf, tags, SIG_RTRC).ok
    /\ ChannelTRC(buf, tags, SIG_GTRC).ok
    /\ ChannelTRC(buf, tags, SIG_BTRC).ok

\* The buffer holds no description that can be read: no desc tag, a type
\* other than desc or mluc, no mluc record, an empty string, or a length or
\* an offset that leads outside the buffer.
DescriptionUnparsable(buf, tags) ==
    \/ ~HasTag(tags, SIG_DESC)
    \/ LET descOff  == TagOf(tags, SIG_DESC).offset
           descType == FourCC(buf, descOff)
       IN  \/ descType \notin {SIG_DESC, SIG_MLUC}
           \/ /\ descType = SIG_DESC
              /\ \/ ~InBounds(buf, descOff + 8, 4)
                 \/ getUint32(buf, descOff + 8) <= 1
                 \/ ~InBounds(buf, descOff + 12, getUint32(buf, descOff + 8))
           \/ /\ descType = SIG_MLUC
              /\ \/ ~InBounds(buf, descOff + 8, 4)
                 \/ getUint32(buf, descOff + 8) = 0
                 \/ ~InBounds(buf, descOff + 16, 8)
                 \/ getUint32(buf, descOff + 16) < 2
                 \/ ~InBounds(buf, descOff + getUint32(buf, descOff + 20),
                              getUint32(buf, descOff + 16))

\* C19: a buffer with valid XYZ tags whose description is absent or cannot
\* be parsed still gives a working colour space, and it is named
\* 'Custom CS': a bad description never makes the import fail.
C19_BadDescriptionNamesCustomCS ==
    ( /\ Parsed
      /\ ValidXYZTags(ParsedBuffer, ParsedTags)
      /\ CurvesReadable(ParsedBuffer, ParsedTags)
      /\ DescriptionUnparsable(ParsedBuffer, ParsedTags) )
        => (fnOut.ok /\ fnOut.cs.name = NAME_CUSTOM)

\* The part of C19 that holds: when the import succeeds on such a buffer
\* and every length and offset of the description stays inside the buffer,
\* the name is 'Custom CS'.
BadDescriptionInsideBufferNamesCustomCS ==
    ( /\ Parsed
      /\ fnOut.ok
      /\ DescriptionUnparsable(ParsedBuffer, ParsedTags)
      /\ fnIn.profile.desc \notin {"descLong"} )
        => fnOut.cs.name = NAME_CUSTOM

\* The description of the buffer can be read or is passed over.
DescriptionReadable(buf, tags) == ParseDescription(buf, tags).ok

\* The s15Fixed16 parameter idx of a para tag at offset o.
ParaParameter(buf, o, idx) == readS15Fixed16(buf, o + 12 + idx * 4)

\* The fields the type of the tag calls for lie inside the buffer: the count
\* and the entries of a curv, the function number and the parameters of a
\* para (five for function 3, seven for function 4, one otherwise).
CurveFieldsInside(buf, tags, sig) ==
    \/ ~HasTag(tags, sig)
    \/ LET o    == TagOf(tags, sig).offset
           type == FourCC(buf, o)
       IN  \/ type \notin {SIG_CURV, SIG_PARA}
           \/ /\ type = SIG_CURV
              /\ InBounds(buf, o + 8, 4)
              /\ InBounds(buf, o + 12, 2 * getUint32(buf, o + 8))
           \/ /\ type = SIG_PARA
              /\ InBounds(buf, o + 8, 2)
              /\ InBounds(buf, o + 12,
                          4 * (CASE getUint16(buf, o + 8) = 3 -> 5
                                 [] getUint16(buf, o + 8) = 4 -> 7
                                 [] OTHER -> 1))

\* The curve the tag stands for: absent -> sRGB; curv with count 0 ->
\* identity, count 1 -> pure gamma, count >= 2 -> sampled table; para
\* function 0, 3 or 4 -> its formula, any other function -> pure gamma of
\* the first parameter; any other type -> sRGB.
CurveOfTag(buf, tags, sig) ==
    IF ~HasTag(tags, sig) THEN [kind |-> "srgb"]
    ELSE
      LET o    == TagOf(tags, sig).offset
          type == FourCC(buf, o)
      IN  CASE type = SIG_CURV ->
                 LET count == getUint32(buf, o + 8)
                 IN  CASE count = 0 -> [kind |-> "linear"]
                       [] count = 1 ->
                            [kind |-> "gamma", g |-> (getUint16(buf, o + 12) * FP) \div 256]
                       [] OTHER ->
                            [kind |-> "table",
                             table |-> [i \in 1..count |->
                                 (getUint16(buf, o + 10 + 2 * i) * FP) \div 65535]]
            [] type = SIG_PARA ->
                 LET funcType == getUint16(buf, o + 8)
                     P(idx) == ParaParameter(buf, o, idx)
                 IN  CASE funcType = 3 ->
                            [kind |-> "para3", g |-> P(0), a |-> P(1), b |-> P(2),
                             c |-> P(3), d |-> P(4)]
                       [] funcType = 4 ->
                            [kind |-> "para4", g |-> P(0), a |-> P(1), b |-> P(2),
                             c |-> P(3), d |-> P(4), e |-> P(5), f |-> P(6)]
                       [] OTHER -> [kind |-> "gamma", g |-> P(0)]
            [] OTHER -> [kind |-> "srgb"]

TRC_TAGS == << SIG_RTRC, SIG_GTRC, SIG_BTRC >>

\* C20 as stated: whatever the three TRC tags hold, the parse succeeds and
\* the curve of each channel is the one its tag stands for.
C20_CurveOfEveryTag ==
    ( /\ Parsed
      /\ ValidXYZTags(ParsedBuffer, ParsedTags)
      /\ DescriptionReadable(ParsedBuffer, ParsedTags) )
        => /\ fnOut.ok
           /\ \A ch \in 1..3 :
                 fnOut.cs.curves[ch] = CurveOfTag(ParsedBuffer, ParsedTags, TRC_TAGS[ch])

\* C20: when the fields of the three TRC tags lie inside the buffer, the
\* parse succeeds and the curve of each channel is the one its tag stands
\* for: absent -> sRGB; curv with count 0 -> identity, 1 -> pure gamma,
\* >= 2 -> sampled table; para 0, 3, 4 -> the formula, any other function ->
\* pure gamma of the first parameter; any other type -> sRGB.
C20_CurveOfEveryTagInsideBuffer ==
    ( /\ Parsed
      /\ ValidXYZTags(ParsedBuffer, ParsedTags)
      /\ DescriptionReadable(ParsedBuffer, ParsedTags)
      /\ \A ch \in 1..3 : CurveFieldsInside(ParsedBuffer, ParsedTags, TRC_TAGS[ch]) )
        => /\ fnOut.ok
           /\ \A ch \in 1..3 :
                 fnOut.cs.curves[ch] = CurveOfTag(ParsedBuffer, ParsedTags, TRC_TAGS[ch])

\* A profile whose blue curve is a para of function 1 has been parsed: the
\* curve is the pure gamma of the first parameter (2.4 read as 2.3999),
\* next to two curv gammas.
C20_Witness ==
    /\ Parsed
    /\ fnOut.ok
    /\ fnIn.profile.trc = "para1"
    /\ fnOut.cs.curves[3] = [kind |-> "gamma", g |-> 23999]
    /\ fnOut.cs.curves[1].kind = "gamma"

-----------------------------------------------------------------------------
(* clampToWorkingGamut AS A FUNCTION OF THE SPACE AND THE COLOUR           *)

ClampSpaces ==
    { createSRGBWorkingCS, createP3WorkingCS, parseICCProfile(ICCBuffer(FILE_NARROW)).cs }

ClampLightness == { -1000, 0, 2500, 5000, 7500, 9500, FP, 12000 }
ClampAxis == { -4000, -3000, -2000, -1000, 0, 1000, 2000, 3000, 4000 }

\* Colours whose hue is one the trigonometric tables resolve exactly.
ClampAB ==
    { ab \in ClampAxis \X ClampAxis : ab[1] = 0 \/ ab[2] = 0 \/ Abs(ab[1]) = Abs(ab[2]) }

InitClamp ==
    /\ pc = "clamp"
    /\ Idle
    /\ fnIn \in { [cs |-> cs, L |-> L, a |-> ab[1], b |-> ab[2]] :
                    cs \in ClampSpaces, L \in ClampLightness, ab \in ClampAB }
    /\ fnOut = NullObj

ClampColour ==
    /\ pc = "clamp"
    /\ fnOut = NullObj
    /\ fnOut' = [ab |-> clampToWorkingGamut(fnIn.cs, fnIn.L, fnIn.a, fnIn.b)]
    /\ UNCHANGED << pc, appVars, fnIn >>

NextClamp == ClampColour

SpecClamp == InitClamp /\ [][NextClamp]_vars

Clamped == pc = "clamp" /\ fnOut # NullObj
InputInGamut == isInWorkingGamut(fnIn.cs, fnIn.L, fnIn.a, fnIn.b)
InputLCH == oklabToOklch(fnIn.a, fnIn.b)
OutputLCH == oklabToOklch(fnOut.ab[1], fnOut.ab[2])

\* In-gamut-ness along the ray of the input's hue.
RayInGamut(chroma) ==
    LET ab == oklchToOklab(chroma, InputLCH[2])
    IN  isInWorkingGamut(fnIn.cs, fnIn.L, ab[1], ab[2])

ChromaSamples == { 0, 250, 500, 1000, 1500, 2000, 2500, 3000, 3500, 4000 }

\* The ray leaves the gamut and enters it again below the input's chroma.
RayNotMonotone ==
    \E c1, c2 \in ChromaSamples :
        c1 < c2 /\ c2 <= InputLCH[1] /\ ~RayInGamut(c1) /\ RayInGamut(c2)

\* C8: for an out-of-gamut input, the result's chroma is at most the
\* input's, and the result is inside the working gamut or has chroma 0.
C8_ClampReducesChromaIntoGamut ==
    (Clamped /\ ~InputInGamut) =>
        /\ OutputLCH[1] <= InputLCH[1]
        /\ \/ isInWorkingGamut(fnIn.cs, fnIn.L, fnOut.ab[1], fnOut.ab[2])
           \/ OutputLCH[1] = 0

C8_Witness ==
    /\ Clamped /\ ~InputInGamut
    /\ RayNotMonotone
    /\ OutputLCH[1] > 0

\* C9 as stated: for every out-of-gamut input, at every L, the hue derived
\* from the result equals the hue of the input.
C9_HueAlwaysPreserved ==
    (Clamped /\ ~InputInGamut) => OutputLCH[2] = InputLCH[2]

\* C9 amended: the hue derived from the result equals the hue of the input
\* whenever the result keeps a chroma above zero.
C9_HuePreservedWhenChromaRemains ==
    (Clamped /\ ~InputInGamut /\ OutputLCH[1] > 0) => OutputLCH[2] = InputLCH[2]

C9_Witness ==
    /\ Clamped /\ ~InputInGamut
    /\ OutputLCH[1] > 0 /\ OutputLCH[1] < InputLCH[1]
    /\ InputLCH[2] = 135

\* C10: an input inside the working gamut is returned exactly.
C10_InGamutReturnedExactly ==
    (Clamped /\ InputInGamut) => fnOut.ab = << fnIn.a, fnIn.b >>

C10_Witness ==
    /\ Clamped /\ InputInGamut
    /\ fnIn.a # 0 /\ Abs(fnIn.a) = Abs(fnIn.b)

-----------------------------------------------------------------------------
(* findMaxInGamutChroma STEP BY STEP.  fnOut holds the locals lo, hi and i *)
(* of the running call, the place it is at and, once returned, its value.  *)

SearchLightness == { -1000, 0, 5000, 9500, 12000 }
SearchHues == { 0, 45, 90, 135, 180, 225, 270, 315 }
SearchMax == { 0, 1, 1000, 4000 }

InitSearch ==
    /\ pc = "search"
    /\ Idle
    /\ fnIn \in { [cs |-> cs, L |-> L, hueDegrees |-> h, maxSearch |-> m] :
                    cs \in ClampSpaces, L \in SearchLightness,
                    h \in SearchHues, m \in SearchMax }
    /\ fnOut = NullObj

\* In-gamut-ness of the chroma c at the L and hue of the call.
SearchInGamut(c) ==
    LET ab == oklchToOklab(c, fnIn.hueDegrees)
    IN  isInWorkingGamut(fnIn.cs, fnIn.L, ab[1], ab[2])

\* A loop that leaves one iteration early.
SearchContinuesOneShort(i) == i < BISECTION_STEPS - 1

\* i < 20
SearchContinues(i) == i < BISECTION_STEPS

\* A midpoint that stays at the lower end.
SearchMidLow(lo, hi) == lo

\* (lo + hi) / 2
SearchMid(lo, hi) == TDiv(lo + hi, 2)

\* const [aHi, bHi] = oklchToOklab(maxSearch, hueDegrees);
\* if (isInWorkingGamut(L, aHi, bHi)) return maxSearch;
\* let lo = 0, hi = maxSearch;
SearchEnter ==
    /\ pc = "search"
    /\ fnOut = NullObj
    /\ fnOut' = IF SearchInGamut(fnIn.maxSearch)
                THEN [at |-> "returned", lo |-> 0, hi |-> 0, i |-> 0,
                      value |-> fnIn.maxSearch]
                ELSE [at |-> "loop", lo |-> 0, hi |-> fnIn.maxSearch, i |-> 0,
                      value |-> 0]
    /\ UNCHANGED << pc, appVars, fnIn >>

\* One iteration of the for loop.
SearchStep ==
    /\ pc = "search"
    /\ fnOut # NullObj
    /\ fnOut.at = "loop"
    /\ SearchContinues(fnOut.i)
    /\ \E mid \in {SearchMid(fnOut.lo, fnOut.hi)} :
         fnOut' = IF SearchInGamut(mid)
                  THEN [fnOut EXCEPT !.lo = mid, !.i = @ + 1]
                  ELSE [fnOut EXCEPT !.hi = mid, !.i = @ + 1]
    /\ UNCHANGED << pc, appVars, fnIn >>

\* return lo;
SearchReturn ==
    /\ pc = "search"
    /\ fnOut # NullObj
    /\ fnOut.at = "loop"
    /\ ~SearchContinues(fnOut.i)
    /\ fnOut' = [fnOut EXCEPT !.at = "returned", !.value = fnOut.lo]
    /\ UNCHANGED << pc, appVars, fnIn >>

NextSearch == SearchEnter \/ SearchStep \/ SearchReturn

SpecSearch == InitSearch /\ [][NextSearch]_vars

\* The call is never held up: the JavaScript thread runs it to completion.
SpecSearchFair == SpecSearch /\ WF_vars(NextSearch)

SearchReturned == pc = "search" /\ fnOut # NullObj /\ fnOut.at = "returned"

\* The stepwise call returns what the operator findMaxInGamutChroma computes.
SearchAgreesWithOperator ==
    SearchReturned =>
        fnOut.value = findMaxInGamutChroma(fnIn.cs, fnIn.L, fnIn.hueDegrees,
                                           fnIn.maxSearch)

\* C11: findMaxInGamutChroma always terminates; it returns after exactly 20
\* bisection steps when the colour at maxSearch is out of gamut and after
\* none when it is in gamut, it has no other outcome than a returned value,
\* and that value lies in [0, maxSearch].
C11_SearchTerminatesInTwentySteps ==
    /\ <>SearchReturned
    /\ [](SearchReturned =>
            /\ fnOut.i = (IF SearchInGamut(fnIn.maxSearch) THEN 0 ELSE BISECTION_STEPS)
            /\ fnOut.value >= 0 /\ fnOut.value <= fnIn.maxSearch)
    /\ []((pc = "search" /\ fnOut # NullObj) => fnOut.at \in {"loop", "returned"})

C11_Witness ==
    /\ SearchReturned
    /\ fnOut.i = BISECTION_STEPS
    /\ fnOut.value > 0 /\ fnOut.value < fnIn.maxSearch

\* In-gamut-ness does not come back as the chroma grows from 0 to maxSearch.
SearchMonotone ==
    \A c \in 1..fnIn.maxSearch : SearchInGamut(c) => SearchInGamut(c - 1)

\* maxSearch / 2^20
SearchTolerance == fnIn.maxSearch \div (2 ^ BISECTION_STEPS)

\* C12: when in-gamut-ness is monotone along the ray and some chroma of
\* [0, maxSearch] is in gamut, the call returns maxSearch itself if the colour
\* at maxSearch is in gamut, and otherwise an in-gamut chroma (one that does
\* not exceed the largest in-gamut chroma) from which no in-gamut chroma of
\* [0, maxSearch] lies further than maxSearch / 2^20.
C12_SearchFindsLargestInGamutChroma ==
    (SearchReturned /\ SearchInGamut(0) /\ SearchMonotone) =>
        IF SearchInGamut(fnIn.maxSearch) THEN fnOut.value = fnIn.maxSearch
        ELSE /\ SearchInGamut(fnOut.value)
             /\ \A c \in 0..fnIn.maxSearch :
                    SearchInGamut(c) => c - fnOut.value <= SearchTolerance

C12_Witness ==
    /\ SearchReturned /\ SearchInGamut(0) /\ SearchMonotone
    /\ ~SearchInGamut(fnIn.maxSearch)
    /\ fnOut.value > 0
    /\ ~SearchInGamut(fnOut.value + 1)

-----------------------------------------------------------------------------
(* isInGamut AND isInWorkingGamut AS FUNCTIONS OF THEIR ARGUMENTS          *)

\* Channel values around both ends of the tolerated interval; 10004 is
\* 1 + 0.0004 and 10010 is 1.001.
GamutChannel == { -10, -6, -5, -4, 0, 5000, 10004, 10005, 10006, 10010 }
GamutOthers == { -6, 0, 10005 }

GamutRGBInputs ==
    { [kind |-> "rgb", rgb |-> rgb] :
        rgb \in (GamutChannel \X GamutOthers \X GamutOthers)
                 \cup (GamutOthers \X GamutChannel \X GamutOthers)
                 \cup (GamutOthers \X GamutOthers \X GamutChannel) }

GamutLabInputs ==
    { [kind |-> "lab", cs |-> cs, L |-> L, a |-> ab[1], b |-> ab[2]] :
        cs \in ClampSpaces, L \in ClampLightness, ab \in ClampAB }

InitGamut ==
    /\ pc = "gamut"
    /\ Idle
    /\ fnIn \in GamutRGBInputs \cup GamutLabInputs
    /\ fnOut = NullObj

TestGamut ==
    /\ pc = "gamut"
    /\ fnOut = NullObj
    /\ fnIn.kind = "rgb"
    /\ fnOut' = [value |-> isInGamut(fnIn.rgb[1], fnIn.rgb[2], fnIn.rgb[3])]
    /\ UNCHANGED << pc, appVars, fnIn >>

TestWorkingGamut ==
    /\ pc = "gamut"
    /\ fnOut = NullObj
    /\ fnIn.kind = "lab"
    /\ fnOut' = [value |-> isInWorkingGamut(fnIn.cs, fnIn.L, fnIn.a, fnIn.b)]
    /\ UNCHANGED << pc, appVars, fnIn >>

NextGamut == TestGamut \/ TestWorkingGamut

SpecGamut == InitGamut /\ [][NextGamut]_vars

GamutTested(kind) == pc = "gamut" /\ fnOut # NullObj /\ fnIn.kind = kind

\* The closed interval [-0.0005, 1.0005].
ToleratedInterval == (-5) .. (FP + 5)

\* C13: isInGamut(r, g, b) is true exactly when each of r, g, b lies in
\* [-0.0005, 1.0005], so isInGamut(1.0004, 0, 0) is true and
\* isInGamut(1.001, 0, 0) is false; isInWorkingGamut(L, a, b) is isInGamut of
\* the active space's fromLinearSRGB of oklabToLinearSRGB(L, a, b).
C13_GamutIsToleratedUnitCube ==
    /\ GamutTested("rgb") =>
          /\ fnOut.value <=> (\A k \in 1..3 : fnIn.rgb[k] \in ToleratedInterval)
          /\ fnIn.rgb = << 10004, 0, 0 >> => fnOut.value
          /\ fnIn.rgb = << 10010, 0, 0 >> => ~fnOut.value
    /\ GamutTested("lab") =>
          \E lin \in {oklabToLinearSRGB(fnIn.L, fnIn.a, fnIn.b)} :
          \E w \in {mat3Apply(fnIn.cs.fromSRGBMatrix, lin[1], lin[2], lin[3])} :
              fnOut.value <=> (\A k \in 1..3 : w[k] \in ToleratedInterval)

C13_Witness ==
    /\ GamutTested("rgb")
    /\ fnIn.rgb = << 10005, -5, 10005 >>
    /\ fnOut.value

-----------------------------------------------------------------------------
(* parseHex AS A FUNCTION OF THE TEXT                                      *)

\* Texts: a lead, a body and a trail, each a sequence of character codes
\* (35 '#', 32 ' ', 9 tab, 48..57 digits, 97.. lower case, 65.. upper case).
HexLeads == { << >>, << 35 >>, << 35, 35 >>, << 32 >>, << 9, 32, 35 >> }
HexBodies ==
    { << 102, 102, 56, 48, 52, 48 >>,          \* ff8040
      << 70, 70, 56, 48, 52, 48 >>,            \* FF8040
      << 70, 102, 56, 48, 97, 66 >>,           \* Ff80aB
      << 48, 48, 48, 48, 48, 48 >>,            \* 000000
      << 49, 50, 51, 52, 53 >>,                \* 12345
      << 49, 50, 51, 52, 53, 54, 55 >>,        \* 1234567
      << 102, 102, 56, 48, 103, 48 >>,         \* ff80g0
      << 102, 102, 32, 48, 52, 48 >>,          \* ff 040
      << 102, 102, 56, 35, 52, 48 >>,          \* ff8#40
      << 98, 97, 100 >>,                       \* bad
      << >> }
HexTrails == { << >>, << 32 >>, << 10 >>, << 48 >> }

HexInputs == { l \o b \o t : l \in HexLeads, b \in HexBodies, t \in HexTrails }

InitHex ==
    /\ pc = "hex"
    /\ Idle
    /\ fnIn \in { [str |-> str] : str \in HexInputs }
    /\ fnOut = NullObj

ParseHexText ==
    /\ pc = "hex"
    /\ fnOut = NullObj
    /\ fnOut' = [rgb |-> parseHex(fnIn.str)]
    /\ UNCHANGED << pc, appVars, fnIn >>

NextHex == ParseHexText

SpecHex == InitHex /\ [][NextHex]_vars

HexParsed == pc = "hex" /\ fnOut # NullObj

\* The character is one of 0-9, a-f, A-F.
IsHexChar(c) == c \in (48..57) \cup (97..102) \cup (65..70)

\* An optional single leading '#' followed by exactly six hex digits.
IsHexColourText(s) ==
    \/ Len(s) = 6 /\ \A i \in 1..6 : IsHexChar(s[i])
    \/ Len(s) = 7 /\ s[1] = 35 /\ \A i \in 2..7 : IsHexChar(s[i])

\* The text is a hex colour text between runs of white space.
IsPaddedHexColourText(s) ==
    \E i \in 0..Len(s), j \in 0..Len(s) :
        /\ i <= j
        /\ \A k \in 1..i : IsWhiteSpace(s[k])
        /\ \A k \in (j + 1)..Len(s) : IsWhiteSpace(s[k])
        /\ IsHexColourText(SubSeq(s, i + 1, j))

\* The result is a triple of channel values of [0, 1].
IsChannelTriple(rgb) == Len(rgb) = 3 /\ \A k \in 1..3 : rgb[k] \in 0..FP

\* C14 as stated: parseHex returns a triple exactly when its input is an
\* optional single '#' followed by exactly six hex digits, and null for
\* every other string.
C14_TripleExactlyForHexColourText ==
    HexParsed =>
        /\ fnOut.rgb # NullRGB <=> IsHexColourText(fnIn.str)
        /\ fnOut.rgb # NullRGB => IsChannelTriple(fnOut.rgb)

\* C14 amended: parseHex returns a triple exactly when its input, without
\* its leading and trailing white space, is an optional single '#' followed
\* by exactly six hex digits, and null for every other string.
C14_TripleExactlyForPaddedHexColourText ==
    HexParsed =>
        /\ fnOut.rgb # NullRGB <=> IsPaddedHexColourText(fnIn.str)
        /\ fnOut.rgb # NullRGB => IsChannelTriple(fnOut.rgb)

C14_Witness ==
    /\ HexParsed
    /\ fnIn.str = << 9, 32, 35 >> \o << 70, 102, 56, 48, 97, 66 >> \o << 10 >>
    /\ fnOut.rgb # NullRGB

-----------------------------------------------------------------------------
(* parseHex(rgbToHex(r, g, b)) AS A FUNCTION OF THE CHANNELS               *)

\* n / 255 for a byte n.
ByteLevel(n) == TDiv(n * FP, 255)
ByteLevels == { ByteLevel(n) : n \in 0..255 }

\* Channel values of [0, 1] between the byte levels, and the others a
\* colour is encoded next to.
OffLevels == { 1, 19, 20, 2500, 4999, 5001, 9980, 9999 }
OtherChannels == { 0, 39, 5000, FP }

InitRoundTrip ==
    /\ pc = "roundtrip"
    /\ Idle
    /\ fnIn \in { [rgb |-> rgb] :
                    rgb \in ((ByteLevels \cup OffLevels) \X OtherChannels \X OtherChannels)
                             \cup (OtherChannels \X (ByteLevels \cup OffLevels) \X OtherChannels)
                             \cup (OtherChannels \X OtherChannels \X (ByteLevels \cup OffLevels)) }
    /\ fnOut = NullObj

RoundTripHex ==
    /\ pc = "roundtrip"
    /\ fnOut = NullObj
    /\ \E hex \in {rgbToHex(fnIn.rgb[1], fnIn.rgb[2], fnIn.rgb[3])} :
         fnOut' = [hex |-> hex, rgb |-> parseHex(hex)]
    /\ UNCHANGED << pc, appVars, fnIn >>

NextRoundTrip == RoundTripHex

SpecRoundTrip == InitRoundTrip /\ [][NextRoundTrip]_vars

RoundTripped == pc = "roundtrip" /\ fnOut # NullObj

\* '#' followed by six lower-case hex digits.
IsLowerHexColour(hex) ==
    /\ Len(hex) = 7 /\ hex[1] = 35
    /\ \A i \in 2..7 : hex[i] \in (48..57) \cup (97..102)

\* 1 / 255
ByteStep == FP \div 255

\* C16: for r, g, b in [0, 1], parseHex(rgbToHex(r, g, b)) is a triple within
\* 1/255 of (r, g, b) in each channel; a channel that is an exact byte level
\* n/255 comes back exactly; rgbToHex yields '#' and six lower-case,
\* zero-padded hex digits.
C16_HexRoundTripWithinOneByteStep ==
    RoundTripped =>
        /\ IsLowerHexColour(fnOut.hex)
        /\ fnOut.rgb # NullRGB
        /\ \A k \in 1..3 :
              /\ Abs(fnOut.rgb[k] - fnIn.rgb[k]) <= ByteStep
              /\ fnIn.rgb[k] \in ByteLevels => fnOut.rgb[k] = fnIn.rgb[k]

C16_Witness ==
    /\ RoundTripped
    /\ fnIn.rgb = << ByteLevel(10), 0, FP >>
    /\ fnOut.hex = << 35, 48, 97, 48, 48, 102, 102 >>
    /\ fnOut.rgb = fnIn.rgb

-----------------------------------------------------------------------------
(* oklabToOklch ON IEEE 754 VALUES.  The fixed-point numbers above leave   *)
(* out two kinds of double the function can be given: the negative zero    *)
(* (0 * -1, as oklchToOklab(0, 180) returns it) and the magnitudes below   *)
(* half the spacing of the doubles next to 360, 2.8e-14 (-2.4e-17, as      *)
(* oklchToOklab(0.1, 360) returns it).  A value is its fixed-point part    *)
(* std and, when std is 0, what is left of it below the fixed point: low.  *)

Std(v)   == [std |-> v, low |-> "0"]
NEG_ZERO == [std |-> 0, low |-> "-0"]
TINY     == [std |-> 0, low |-> "tiny"]
NEG_TINY == [std |-> 0, low |-> "-tiny"]

\* x === 0 (true of both zeros), x < 0, and the sign bit of x.
IsZero(x) == x.std = 0 /\ x.low \in {"0", "-0"}
IsNeg(x) == x.std < 0 \/ (x.std = 0 /\ x.low = "-tiny")
SignBit(x) == x.std < 0 \/ (x.std = 0 /\ x.low \in {"-0", "-tiny"})

\* The value v with the sign of y.
WithSignOf(y, v) == IF SignBit(y) THEN Std(-v) ELSE Std(v)

\* Math.atan2(b, a) * (180 / Math.PI).  atan2(+-0, a) is +-0 for a positive
\* or +0 and +-pi for a negative or -0; a magnitude below the fixed point
\* over a positive a stays one, and over a negative a the result rounds to
\* +-pi.
atan2Degrees(b, a) ==
    IF IsZero(b)
    THEN IF SignBit(a) THEN WithSignOf(b, 180) ELSE [std |-> 0, low |-> b.low]
    ELSE IF b.std = 0
    THEN IF a.std > 0 THEN [std |-> 0, low |-> b.low]
         ELSE IF a.std < 0 THEN WithSignOf(b, 180)
         ELSE IF IsZero(a) THEN WithSignOf(b, 90)
         ELSE Std(Atan2Deg(IF SignBit(b) THEN -1 ELSE 1, IF SignBit(a) THEN -1 ELSE 1))
    ELSE Std(Atan2Deg(b.std, a.std))

\* hueDegrees += 360: the sum is the double nearest to it, so what lay
\* below the fixed point is rounded away.
Add360(h) == Std(h.std + 360)

\* Returns [chroma, hueDegrees].
oklabToOklchIEEE(a, b) ==
    LET chroma == [std |-> ISqrt(a.std * a.std + b.std * b.std),
                   low |-> IF a.std = 0 /\ b.std = 0 /\ ~(IsZero(a) /\ IsZero(b))
                           THEN "tiny" ELSE "0"]
        hueDegrees == atan2Degrees(b, a)
    IN  [chroma |-> chroma,
         hue |-> IF IsNeg(hueDegrees) THEN Add360(hueDegrees) ELSE hueDegrees]

PolarValues == { Std(v) : v \in ClampAxis } \cup { NEG_ZERO, TINY, NEG_TINY }

InitPolar ==
    /\ pc = "polar"
    /\ Idle
    /\ fnIn \in { [a |-> a, b |-> b] : a \in PolarValues, b \in PolarValues }
    /\ fnOut = NullObj

ToPolar ==
    /\ pc = "polar"
    /\ fnOut = NullObj
    /\ fnOut' = oklabToOklchIEEE(fnIn.a, fnIn.b)
    /\ UNCHANGED << pc, appVars, fnIn >>

NextPolar == ToPolar

SpecPolar == InitPolar /\ [][NextPolar]_vars

Polared == pc = "polar" /\ fnOut # NullObj

\* On values without a part below the fixed point, the function is the
\* fixed-point oklabToOklch.
PolarAgreesWithFixedPoint ==
    (Polared /\ fnIn.a.low = "0" /\ fnIn.b.low = "0") =>
        << fnOut.chroma, fnOut.hue >>
            = << Std(oklabToOklch(fnIn.a.std, fnIn.b.std)[1]),
                 Std(oklabToOklch(fnIn.a.std, fnIn.b.std)[2]) >>

\* C17: for every (a, b), oklabToOklch returns a chroma >= 0 and a hue h
\* with 0 <= h < 360, and h = 0 when a = b = 0.
C17_HueInHalfOpenCircle ==
    Polared =>
        /\ ~IsNeg(fnOut.chroma)
        /\ ~IsNeg(fnOut.hue) /\ fnOut.hue.std < 360
        /\ (IsZero(fnIn.a) /\ IsZero(fnIn.b)) => IsZero(fnOut.hue)

-----------------------------------------------------------------------------
(* THE OKLab CONVERSIONS TO SIXTEEN DECIMAL PLACES.  A round trip to       *)
(* within 1e-6 cannot be read off numbers of four decimal places, so the   *)
(* two conversions are evaluated here with the coefficients of the source  *)
(* in full, on signed decimals of four limbs of four digits after the      *)
(* point and one before it: mag[1] is the least significant limb.  Every   *)
(* product is truncated at the sixteenth place.                            *)

\* i.f1f2f3f4, each f a group of four decimal digits.
Dec(i, f1, f2, f3, f4) == [neg |-> FALSE, mag |-> << f4, f3, f2, f1, i >>]

\* A fixed-point number of the model as a decimal.
DecOfFixed(v) == [neg |-> v < 0, mag |-> << 0, 0, 0, Abs(v) % FP, Abs(v) \div FP >>]

\* Limbs that left 0 .. 9999 are brought back, the carry or borrow moving up.
RECURSIVE Propagate(_, _, _, _)
Propagate(raw, i, carry, acc) ==
    IF i > Len(raw) THEN acc
    ELSE LET t == raw[i] + carry
             d == t % FP
         IN  Propagate(raw, i + 1, (t - d) \div FP, Append(acc, d))

RECURSIVE MagCmpFrom(_, _, _)
MagCmpFrom(x, y, i) ==
    IF i = 0 THEN 0
    ELSE IF x[i] # y[i] THEN (IF x[i] < y[i] THEN -1 ELSE 1)
    ELSE MagCmpFrom(x, y, i - 1)
\* -1, 0 or 1 as x is below, at or above y.
MagCmp(x, y) == MagCmpFrom(x, y, Len(x))

MagAdd(x, y) == Propagate([i \in 1..Len(x) |-> x[i] + y[i]], 1, 0, << >>)
\* x - y for x >= y.
MagSub(x, y) == Propagate([i \in 1..Len(x) |-> x[i] - y[i]], 1, 0, << >>)
MagHalf(x) ==
    [i \in 1..Len(x) |->
        (x[i] + (IF i < Len(x) /\ x[i + 1] % 2 = 1 THEN FP ELSE 0)) \div 2]

MagTerm(x, y, i, k) == IF k + 1 - i \in 1..Len(y) THEN x[i] * y[k + 1 - i] ELSE 0
\* The product of a decimal x and a longer or equal y, every limb kept.
MagMulFull(x, y) ==
    Propagate([k \in 1..(Len(x) + Len(y)) |->
                  MagTerm(x, y, 1, k) + MagTerm(x, y, 2, k) + MagTerm(x, y, 3, k)
                  + MagTerm(x, y, 4, k) + MagTerm(x, y, 5, k)],
              1, 0, << >>)
\* The product of two decimals, without its last sixteen places.
MagMul(x, y) == SubSeq(MagMulFull(x, y), 5, 9)

HNeg(x) == [neg |-> ~x.neg, mag |-> x.mag]
HAdd(x, y) ==
    IF x.neg = y.neg THEN [neg |-> x.neg, mag |-> MagAdd(x.mag, y.mag)]
    ELSE IF MagCmp(x.mag, y.mag) >= 0
         THEN [neg |-> x.neg, mag |-> MagSub(x.mag, y.mag)]
         ELSE [neg |-> y.neg, mag |-> MagSub(y.mag, x.mag)]
HSub(x, y) == HAdd(x, HNeg(y))
HMul(x, y) == [neg |-> x.neg # y.neg, mag |-> MagMul(x.mag, y.mag)]
\* x ** 3
HCube(x) == HMul(HMul(x, x), x)

\* Halvings of [0, 4] that bring the cube root to the sixteenth place.
CBRT_BITS == 56

\* The cube root is exact to the sixteenth place: the cube of a candidate is
\* compared with x in all its forty-eight places.
RECURSIVE MagCbrtIter(_, _, _, _)
MagCbrtIter(x, lo, hi, n) ==
    IF n = 0 THEN lo
    ELSE LET mid == MagHalf(MagAdd(lo, hi))
         IN  IF MagCmp(MagMulFull(mid, MagMulFull(mid, mid)),
                       << 0, 0, 0, 0, 0, 0, 0, 0 >> \o x \o << 0, 0 >>) <= 0
             THEN MagCbrtIter(x, mid, hi, n - 1)
             ELSE MagCbrtIter(x, lo, mid, n - 1)
\* Math.cbrt
HCbrt(x) ==
    [neg |-> x.neg,
     mag |-> MagCbrtIter(x.mag, Dec(0, 0, 0, 0, 0).mag, Dec(4, 0, 0, 0, 0).mag, CBRT_BITS)]

\* |x - y| <= tolerance
HWithin(x, y, tolerance) == MagCmp(HSub(x, y).mag, tolerance.mag) <= 0

\* oklabToLinearSRGB with the coefficients in full.
oklabToLinearSRGBHi(L, a, b) ==
    LET lCubeRoot == HAdd(HAdd(L, HMul(Dec(0, 3963, 3777, 7400, 0), a)), HMul(Dec(0, 2158, 375, 7300, 0), b))
        mCubeRoot == HSub(HSub(L, HMul(Dec(0, 1055, 6134, 5800, 0), a)), HMul(Dec(0, 638, 5417, 2800, 0), b))
        sCubeRoot == HSub(HSub(L, HMul(Dec(0, 894, 8417, 7500, 0), a)), HMul(Dec(1, 2914, 8554, 8000, 0), b))
        lLinear == HCube(lCubeRoot)
        mLinear == HCube(mCubeRoot)
        sLinear == HCube(sCubeRoot)
    IN  << HAdd(HSub(HMul(Dec(4, 767, 4166, 2100, 0), lLinear), HMul(Dec(3, 3077, 1159, 1300, 0), mLinear)), HMul(Dec(0, 2309, 6992, 9200, 0), sLinear)),
           HSub(HAdd(HNeg(HMul(Dec(1, 2684, 3800, 4600, 0), lLinear)), HMul(Dec(2, 6097, 5740, 1100, 0), mLinear)), HMul(Dec(0, 3413, 1939, 6500, 0), sLinear)),
           HAdd(HSub(HNeg(HMul(Dec(0, 41, 9608, 6300, 0), lLinear)), HMul(Dec(0, 7034, 1861, 4700, 0), mLinear)), HMul(Dec(1, 7076, 1470, 1000, 0), sLinear)) >>

\* linearSRGBToOKLab with the coefficients in full.
linearSRGBToOKLabHi(r, g, b) ==
    LET lLinear == HAdd(HAdd(HMul(Dec(0, 4122, 2147, 800, 0), r), HMul(Dec(0, 5363, 3253, 6300, 0), g)), HMul(Dec(0, 514, 4599, 2900, 0), b))
        mLinear == HAdd(HAdd(HMul(Dec(0, 2119, 349, 8200, 0), r), HMul(Dec(0, 6806, 9954, 5100, 0), g)), HMul(Dec(0, 1073, 9695, 6600, 0), b))
        sLinear == HAdd(HAdd(HMul(Dec(0, 883, 246, 1900, 0), r), HMul(Dec(0, 2817, 1883, 7600, 0), g)), HMul(Dec(0, 6299, 7870, 500, 0), b))
        lRoot == HCbrt(lLinear)
        mRoot == HCbrt(mLinear)
        sRoot == HCbrt(sLinear)
    IN  << HSub(HAdd(HMul(Dec(0, 2104, 5425, 5300, 0), lRoot), HMul(Dec(0, 7936, 1778, 5000, 0), mRoot)), HMul(Dec(0, 40, 7204, 6800, 0), sRoot)),
           HAdd(HSub(HMul(Dec(1, 9779, 9849, 5100, 0), lRoot), HMul(Dec(2, 4285, 9220, 5000, 0), mRoot)), HMul(Dec(0, 4505, 9370, 9900, 0), sRoot)),
           HSub(HAdd(HMul(Dec(0, 259, 403, 7100, 0), lRoot), HMul(Dec(0, 7827, 7176, 6200, 0), mRoot)), HMul(Dec(0, 8086, 7576, 6000, 0), sRoot)) >>

\* The colours of the round trip: a, b in [-0.4, 0.4] and L in [0, 1].
TripLightness == {0, 2000, 5000, FP}
TripA == {-4000, -3200, -300, 0, 4000}
TripB == {-4000, -3400, 0, 500, 4000}

InitTrip ==
    /\ pc = "trip"
    /\ Idle
    /\ fnIn \in { [L |-> L, a |-> a, b |-> b] :
                    L \in TripLightness, a \in TripA, b \in TripB }
    /\ fnOut = NullObj

\* linearSRGBToOKLab(...oklabToLinearSRGB(L, a, b))
RoundTripLab ==
    /\ pc = "trip"
    /\ fnOut = NullObj
    /\ \E rgb \in {oklabToLinearSRGBHi(DecOfFixed(fnIn.L), DecOfFixed(fnIn.a),
                                       DecOfFixed(fnIn.b))} :
        \E lab \in {linearSRGBToOKLabHi(rgb[1], rgb[2], rgb[3])} :
            fnOut' = [rgb |-> rgb, lab |-> lab]
    /\ UNCHANGED << pc, appVars, fnIn >>

NextTrip == RoundTripLab

SpecTrip == InitTrip /\ [][NextTrip]_vars

Tripped == pc = "trip" /\ fnOut # NullObj

\* 1e-6
TripTolerance == Dec(0, 0, 100, 0, 0)

\* C18: for every (L, a, b) with L in [0, 1] and a, b in [-0.4, 0.4],
\* linearSRGBToOKLab(oklabToLinearSRGB(L, a, b)) is (L, a, b) to within 1e-6
\* in each component.
C18_LabRoundTripWithinOneMillionth ==
    Tripped =>
        /\ HWithin(fnOut.lab[1], DecOfFixed(fnIn.L), TripTolerance)
        /\ HWithin(fnOut.lab[2], DecOfFixed(fnIn.a), TripTolerance)
        /\ HWithin(fnOut.lab[3], DecOfFixed(fnIn.b), TripTolerance)

-----------------------------------------------------------------------------
(* encode OF THE PARAMETRIC CURVES 3 AND 4 AS A FUNCTION OF THE CURVE AND  *)
(* THE VALUE                                                               *)

\* g = 2.4, a = 1/1.055, b = 0.055/1.055 as parseTRC reads them; c is 0,
\* 1/12.92 or -1/12.92 and d is 0, 0.04045 or 0.5.
ParaC == {0, 774, -774}
ParaD == {0, 405, 5000}
ParaShift == {0, 100}

ParaCurves ==
    { [kind |-> "para3", g |-> 23999, a |-> 9479, b |-> 521, c |-> c, d |-> d] :
        c \in ParaC, d \in ParaD }
    \cup
    { [kind |-> "para4", g |-> 23999, a |-> 9479, b |-> 521, c |-> c, d |-> d,
       e |-> e, f |-> f] : c \in ParaC, d \in ParaD, e \in ParaShift, f \in ParaShift }

\* Values around the breakpoint of the curve and across [0, 1].
ParaValues(trc) ==
    { EncodeCutoff(trc) - 1, EncodeCutoff(trc), EncodeCutoff(trc) + 1,
      -100, 0, 20, 2500, FP }

InitParaEncode ==
    /\ pc = "paraEncode"
    /\ Idle
    /\ fnIn \in UNION { { [trc |-> trc, v |-> v] : v \in ParaValues(trc) } :
                          trc \in ParaCurves }
    /\ fnOut = NullObj

\* trc.encode(v)
EncodePara ==
    /\ pc = "paraEncode"
    /\ fnOut = NullObj
    /\ fnOut' = [branch |-> EncodeBranch(fnIn.trc, fnIn.v),
                 value |-> EncodeCurve(fnIn.trc, fnIn.v)]
    /\ UNCHANGED << pc, appVars, fnIn >>

NextParaEncode == EncodePara

SpecParaEncode == InitParaEncode /\ [][NextParaEncode]_vars

ParaEncoded == pc = "paraEncode" /\ fnOut # NullObj

\* The breakpoint in output space: c * d, and c * d + f for function 4.
ParaBreakpoint(trc) ==
    TDiv(trc.c * trc.d, FP) + (IF trc.kind = "para4" THEN trc.f ELSE 0)

\* v / c, resp. (v - f) / c
ParaLinearInverse(trc, v) ==
    TDiv((v - (IF trc.kind = "para4" THEN trc.f ELSE 0)) * FP, trc.c)

\* (max(0, v) ^ (1/g) - b) / a, resp. (max(0, v - e) ^ (1/g) - b) / a
ParaPowerInverse(trc, v) ==
    LET base == Max2(0, v - (IF trc.kind = "para4" THEN trc.e ELSE 0))
    IN  FDiv(Pow(base, FDiv(FP, trc.g)) - trc.b, trc.a)

\* C25: for para curves of function 3 and 4, encode takes the linear branch
\* (v / c, resp. (v - f) / c) exactly when c != 0 and v <= c*d (resp.
\* c*d + f) and the power-law branch otherwise; with c = 0 it takes the
\* power-law branch and divides by no zero.
C25_EncodeBranchByCutoffAndC ==
    ParaEncoded =>
        /\ (fnOut.branch = "linear")
              <=> (fnIn.trc.c # 0 /\ fnIn.v <= ParaBreakpoint(fnIn.trc))
        /\ fnOut.branch = "linear" =>
              (fnIn.trc.c # 0 /\ fnOut.value = ParaLinearInverse(fnIn.trc, fnIn.v))
        /\ fnOut.branch = "power" => fnOut.value = ParaPowerInverse(fnIn.trc, fnIn.v)
        /\ fnIn.trc.c = 0 => fnOut.branch = "power"

\* A function 4 curve with c = 0 has encoded a value at its breakpoint f
\* through the power law.
C25_Witness ==
    /\ ParaEncoded
    /\ fnIn.trc.kind = "para4"
    /\ fnIn.trc.c = 0
    /\ fnIn.trc.f = 100
    /\ fnIn.v = 100
    /\ fnOut.branch = "power"

\* The same at the breakpoint of a function 3 curve with c != 0: the linear
\* branch, v / c.
ParaLinearAtBreakpoint ==
    /\ ParaEncoded
    /\ fnIn.trc.kind = "para3"
    /\ fnIn.trc.c = 774
    /\ fnIn.trc.d = 405
    /\ fnIn.v = 31
    /\ fnOut.branch = "linear"

-----------------------------------------------------------------------------
(* THE INVERSE TABLE OF A SAMPLED CURVE, ENTRY BY ENTRY.  fnOut holds the  *)
(* locals i and ti of the loop that fills invTable, the index ti had       *)
(* before the last iteration, the entry that iteration wrote and the       *)
(* indices of table it read.                                               *)

\* Sampled curves: the straight line, a table that starts at 0.5, one that
\* ends at 0.5, the three samples of a profile, a table that falls back, a
\* falling one, a flat one and five samples with a step.
ScanTables ==
    { << 0, FP >>, << 5000, FP >>, << 0, 5000 >>, << 0, 3051, FP >>,
      << 0, 8000, 3000, FP >>, << FP, 0 >>, << 0, 0, 0 >>,
      << 0, 2000, 2000, 8000, FP >> }

InitScan ==
    /\ pc = "scan"
    /\ Idle
    /\ fnIn \in { [table |-> table] : table \in ScanTables }
    /\ fnOut = NullObj

\* const invTable = new Float64Array(invSize); let ti = 0;
ScanEnter ==
    /\ pc = "scan"
    /\ fnOut = NullObj
    /\ fnOut' = [at |-> "loop", i |-> 0, ti |-> 0, before |-> 0, entry |-> 0,
                 reads |-> {}]
    /\ UNCHANGED << pc, appVars, fnIn >>

\* The indices of table one iteration reads: table[ti + 1] in each test of
\* the while that gets past ti < count - 2, then table[ti] and
\* table[Math.min(ti + 1, count - 1)].
ScanReads(table, from, to) ==
    { t + 1 : t \in from..(to - 1) }
        \cup (IF to < Len(table) - 2 THEN {to + 1} ELSE {})
        \cup {to, Min2(to + 1, Len(table) - 1)}

\* One iteration of for (let i = 0; i < invSize; i++).
ScanStep ==
    /\ pc = "scan"
    /\ fnOut # NullObj
    /\ fnOut.at = "loop"
    /\ fnOut.i < INV_SIZE
    /\ \E ti \in {ScanAdvance(fnIn.table, fnOut.ti, InverseTarget(fnOut.i))} :
          fnOut' = [at |-> "loop", i |-> fnOut.i + 1, ti |-> ti, before |-> fnOut.ti,
                    entry |-> InverseEntry(fnIn.table, ti, InverseTarget(fnOut.i)),
                    reads |-> ScanReads(fnIn.table, fnOut.ti, ti)]
    /\ UNCHANGED << pc, appVars, fnIn >>

\* The loop is left and parseTRC returns the decode/encode pair.
ScanReturn ==
    /\ pc = "scan"
    /\ fnOut # NullObj
    /\ fnOut.at = "loop"
    /\ fnOut.i >= INV_SIZE
    /\ fnOut' = [fnOut EXCEPT !.at = "returned"]
    /\ UNCHANGED << pc, appVars, fnIn >>

NextScan == ScanEnter \/ ScanStep \/ ScanReturn

SpecScan == InitScan /\ [][NextScan]_vars

\* An iteration has written invTable[i - 1].
ScanWrote == pc = "scan" /\ fnOut # NullObj /\ fnOut.i > 0

\* Every entry the loop writes is the entry InverseTable gives for it.
ScanAgreesWithInverseTable ==
    ScanWrote => fnOut.entry = InverseTable(fnIn.table, fnOut.i - 1)

\* Inputs of the encode closure, some of them outside [0, 1].
EncodeInputs == {-100, 0, 1, 2500, 5000, 9999, FP, 12000}

\* C30: for every curv table of length >= 2, whether or not it starts at 0,
\* ends at 1 or is monotone, the scan index stays within [0, count - 2] and
\* never moves backwards, no sample outside the table is read, every
\* inverse entry lies in [0, 1], and encode returns a value in [0, 1].
C30_InverseTableWithinUnitInterval ==
    ScanWrote =>
        /\ fnOut.ti >= 0 /\ fnOut.ti <= Len(fnIn.table) - 2
        /\ fnOut.ti >= fnOut.before
        /\ fnOut.reads \subseteq 0..(Len(fnIn.table) - 1)
        /\ fnOut.entry >= 0 /\ fnOut.entry <= FP
        /\ fnOut.at = "returned" =>
              \A v \in EncodeInputs :
                  EncodeCurve([kind |-> "table", table |-> fnIn.table], v) \in 0..FP

\* The part of C30 about the scan: the index stays within [0, count - 2],
\* never moves backwards, and no sample outside the table is read.
ScanStaysInsideTable ==
    ScanWrote =>
        /\ fnOut.ti >= 0 /\ fnOut.ti <= Len(fnIn.table) - 2
        /\ fnOut.ti >= fnOut.before
        /\ fnOut.reads \subseteq 0..(Len(fnIn.table) - 1)

\* For a table that starts at 0 and ends at 1, monotone or not, the inverse
\* entries and the encoded values lie in [0, 1].
InverseOfFullRangeTableWithinUnitInterval ==
    (ScanWrote /\ fnIn.table[1] = 0 /\ fnIn.table[Len(fnIn.table)] = FP) =>
        /\ fnOut.entry >= 0 /\ fnOut.entry <= FP
        /\ fnOut.at = "returned" =>
              \A v \in EncodeInputs :
                  EncodeCurve([kind |-> "table", table |-> fnIn.table], v) \in 0..FP

-----------------------------------------------------------------------------
(* THE CALLERS OF decode AND encode.  fnIn names the caller, the active    *)
(* space (a built-in one or the profile it is parsed from) and the colour  *)
(* the caller works on; fnOut holds the space and what the caller made.    *)

CallerProfiles ==
    { [xyz |-> {"r", "g", "b"}, prim |-> prim, desc |-> "desc", trc |-> trc] :
        prim \in {"srgb", "narrow"}, trc \in {"each", "none", "table", "para4"} }

CallerSpaces ==
    { [kind |-> "builtin", name |-> name, profile |-> FILE_SRGB] :
        name \in {NAME_SRGB, NAME_P3} }
        \cup { [kind |-> "icc", name |-> NAME_CUSTOM, profile |-> p] : p \in CallerProfiles }

\* Encoded channels of a hex text, OKLab colours of the picker, and linear
\* sRGB colours of the lit result.
CallerInputs(caller) ==
    CASE caller \in {"workingHex", "pick"} ->
             { << 5000, 5000, 5000 >>, << FP, 5020, 2510 >>, << 0, 2000, FP >> }
      [] caller = "info" -> { << 2000, 0, 0 >>, << 7000, 1000, -500 >>, << FP, 0, 0 >> }
      [] caller = "lighting" ->
             { << 2000, 2000, 2000 >>, << 8000, 3000, 500 >>, << 0, FP, 12000 >> }

InitCallers ==
    /\ pc = "callers"
    /\ Idle
    /\ fnIn \in UNION { { [caller |-> caller, space |-> space, v |-> v] :
                            space \in CallerSpaces, v \in CallerInputs(caller) } :
                        caller \in {"workingHex", "pick", "info", "lighting"} }
    /\ fnOut = NullObj

\* The active space: createSRGBWorkingCS(), createP3WorkingCS(), or what
\* parseICCProfile returned for the imported buffer.
CallerCS(in) ==
    IF in.space.kind = "icc" THEN parseICCProfile(ICCBuffer(in.space.profile)).cs
    ELSE IF in.space.name = NAME_SRGB THEN createSRGBWorkingCS
    ELSE createP3WorkingCS

\* The commit of the working-hex field, up to commitEditedColor.
CommitWorkingHex ==
    /\ pc = "callers" /\ fnOut = NullObj /\ fnIn.caller = "workingHex"
    /\ \E cs \in {CallerCS(fnIn)} :
          fnOut' = [cs |-> cs, value |-> WorkingRGBToOKLab(cs, fnIn.v)]
    /\ UNCHANGED << pc, appVars, fnIn >>

\* pickColor() from the sampled channels to the OKLab colour.
PickSample ==
    /\ pc = "callers" /\ fnOut = NullObj /\ fnIn.caller = "pick"
    /\ \E cs \in {CallerCS(fnIn)} :
          fnOut' = [cs |-> cs, value |-> WorkingRGBToOKLab(cs, fnIn.v)]
    /\ UNCHANGED << pc, appVars, fnIn >>

\* updateInfoPanel(): the working hex of the picker colour.
UpdateInfoPanel ==
    /\ pc = "callers" /\ fnOut = NullObj /\ fnIn.caller = "info"
    /\ \E cs \in {CallerCS(fnIn)} :
          fnOut' = [cs |-> cs,
                    value |-> WorkingHex(cs, oklabToLinearSRGB(fnIn.v[1], fnIn.v[2],
                                                               fnIn.v[3]))]
    /\ UNCHANGED << pc, appVars, fnIn >>

\* updateLightingPanel(): the hex of the lit result in the active space,
\* written only for a space named neither 'Display P3' nor 'sRGB'.
UpdateLightingPanel ==
    /\ pc = "callers" /\ fnOut = NullObj /\ fnIn.caller = "lighting"
    /\ \E cs \in {CallerCS(fnIn)} :
          fnOut' = [cs |-> cs,
                    value |-> IF cs.name # NAME_P3 /\ cs.name # NAME_SRGB
                              THEN WorkingHex(cs, fnIn.v) ELSE NullStr]
    /\ UNCHANGED << pc, appVars, fnIn >>

NextCallers == CommitWorkingHex \/ PickSample \/ UpdateInfoPanel \/ UpdateLightingPanel

SpecCallers == InitCallers /\ [][NextCallers]_vars

Called == pc = "callers" /\ fnOut # NullObj

\* The curve of a channel (1 = red, 2 = green, 3 = blue) of the active space:
\* the one its rTRC, gTRC or bTRC tag stands for, or the sRGB transfer
\* function of a built-in space.
CurveOfChannel(in, ch) ==
    IF in.space.kind = "icc"
    THEN CurveOfTag(ICCBuffer(in.space.profile), TagEntries(ICCBuffer(in.space.profile)),
                    TRC_TAGS[ch])
    ELSE SRGB_TRC

\* What a caller has to produce when each channel goes through its own curve.
DecodedByChannel(in, cs) ==
    LET s == toLinearSRGB(cs, DecodeCurve(CurveOfChannel(in, 1), in.v[1]),
                              DecodeCurve(CurveOfChannel(in, 2), in.v[2]),
                              DecodeCurve(CurveOfChannel(in, 3), in.v[3]))
    IN  linearSRGBToOKLab(s[1], s[2], s[3])

EncodedByChannel(in, cs, lin) ==
    LET wc == fromLinearSRGB(cs, lin[1], lin[2], lin[3])
    IN  rgbToHex(EncodeCurve(CurveOfChannel(in, 1), wc[1]),
                 EncodeCurve(CurveOfChannel(in, 2), wc[2]),
                 EncodeCurve(CurveOfChannel(in, 3), wc[3]))

ChannelSamples == {0, 2000, 5000, FP}

\* C21: a space parsed from a profile is flagged perChannelTRC and its
\* decode/encode with index 0, 1, 2 use the curves of rTRC, gTRC, bTRC; the
\* built-in spaces are not flagged; and the working-hex commit, the
\* eyedropper, the info panel and the lighting panel put red through the
\* curve of index 0, green through 1 and blue through 2.
C21_ChannelIndexSelectsCurve ==
    Called =>
        /\ fnOut.cs.perChannelTRC = (fnIn.space.kind = "icc")
        /\ fnIn.space.kind = "icc" =>
              \A ch \in 0..2 : \A v \in ChannelSamples :
                  /\ decode(fnOut.cs, v, ch) = DecodeCurve(CurveOfChannel(fnIn, ch + 1), v)
                  /\ encode(fnOut.cs, v, ch) = EncodeCurve(CurveOfChannel(fnIn, ch + 1), v)
        /\ fnIn.caller \in {"workingHex", "pick"} =>
              fnOut.value = DecodedByChannel(fnIn, fnOut.cs)
        /\ fnIn.caller = "info" =>
              fnOut.value = EncodedByChannel(fnIn, fnOut.cs,
                                oklabToLinearSRGB(fnIn.v[1], fnIn.v[2], fnIn.v[3]))
        /\ (fnIn.caller = "lighting" /\ fnOut.value # NullStr) =>
              fnOut.value = EncodedByChannel(fnIn, fnOut.cs, fnIn.v)

\* The info panel has written a dark grey in the space of the profile whose
\* three curves differ: the three bytes of the hex text differ.
C21_Witness ==
    /\ Called
    /\ fnIn.caller = "info"
    /\ fnIn.space.kind = "icc"
    /\ fnIn.space.profile.trc = "each"
    /\ fnIn.space.profile.prim = "srgb"
    /\ fnIn.v = << 2000, 0, 0 >>
    /\ fnOut.cs.perChannelTRC
    /\ SubSeq(fnOut.value, 2, 3) # SubSeq(fnOut.value, 4, 5)
    /\ SubSeq(fnOut.value, 4, 5) # SubSeq(fnOut.value, 6, 7)
    /\ SubSeq(fnOut.value, 2, 3) # SubSeq(fnOut.value, 6, 7)

-----------------------------------------------------------------------------
(* THE MATRICES OF A PARSED PROFILE.  fnIn holds either a profile, or two  *)
(* matrices of small integers on which the arithmetic of mat3Multiply,     *)
(* mat3Apply and mat3Invert is exact (their determinants are 1, -1, 2 and  *)
(* 4, whose reciprocals are exact in binary and in decimal), and a triple. *)

IntMatrix(rows) == [i \in 1..3 |-> [j \in 1..3 |-> rows[i][j] * FP]]

ExactMatrices ==
    { IntMatrix(<< << 1, 2, 1 >>, << 0, 1, 2 >>, << 0, 0, 1 >> >>),
      IntMatrix(<< << 1, 1, 0 >>, << 0, 1, 1 >>, << 1, 0, 1 >> >>),
      IntMatrix(<< << 0, -1, 0 >>, << 1, 0, 0 >>, << 0, 0, -1 >> >>),
      IntMatrix(<< << 1, 1, 1 >>, << 1, -1, 1 >>, << 1, 1, -1 >> >>),
      IntMatrix(<< << 1, 0, 0 >>, << 2, 1, 0 >>, << 1, 2, 1 >> >>) }

\* Triples the matrices are applied to, some outside [0, 1].
MatrixTriples ==
    { << 0, 0, 0 >>, << FP, FP, FP >>, << FP, 0, 0 >>, << 0, FP, 0 >>, << 0, 0, FP >>,
      << 2500, 5000, 7500 >>, << -FP, 20000, 5000 >> }

MatrixProfiles ==
    { [xyz |-> {"r", "g", "b"}, prim |-> prim, desc |-> "none", trc |-> "none"] :
        prim \in {"srgb", "narrow", "p3"} }

InitMatrix ==
    /\ pc = "matrix"
    /\ Idle
    /\ fnIn \in { [on |-> "profile", profile |-> p, A |-> IDENTITY3, B |-> IDENTITY3,
                   v |-> v] : p \in MatrixProfiles, v \in MatrixTriples }
            \cup { [on |-> "exact", profile |-> FILE_SRGB, A |-> A, B |-> B, v |-> v] :
                     A \in ExactMatrices, B \in ExactMatrices, v \in MatrixTriples }
    /\ fnOut = NullObj

\* What the two directions of a pair of matrices make of v, and of each
\* other's result; byProduct is what a product of matrices made of v.
RoundTrips(forward, reverse, v, byProduct) ==
    LET there == mat3Apply(forward, v[1], v[2], v[3])
        back  == mat3Apply(reverse, v[1], v[2], v[3])
    IN  [ forward |-> forward, reverse |-> reverse, there |-> there,
          byProduct |-> byProduct,
          thereAndBack |-> mat3Apply(reverse, there[1], there[2], there[3]),
          backAndThere |-> mat3Apply(forward, back[1], back[2], back[3]) ]

\* parseICCProfile builds the two matrices of the profile, and the space
\* converts v with toLinearSRGB and fromLinearSRGB.
ParseMatrices ==
    /\ pc = "matrix" /\ fnOut = NullObj /\ fnIn.on = "profile"
    /\ \E cs \in {parseICCProfile(ICCBuffer(fnIn.profile)).cs} :
          fnOut' = RoundTrips(cs.toSRGBMatrix, cs.fromSRGBMatrix, fnIn.v,
                              toLinearSRGB(cs, fnIn.v[1], fnIn.v[2], fnIn.v[3]))
    /\ UNCHANGED << pc, appVars, fnIn >>

\* mat3Invert(A) and mat3Apply of both, and mat3Apply of mat3Multiply(A, B).
ApplyMatrices ==
    /\ pc = "matrix" /\ fnOut = NullObj /\ fnIn.on = "exact"
    /\ \E AB \in {mat3Multiply(fnIn.A, fnIn.B)} :
          fnOut' = RoundTrips(fnIn.A, mat3Invert(fnIn.A), fnIn.v,
                              mat3Apply(AB, fnIn.v[1], fnIn.v[2], fnIn.v[3]))
    /\ UNCHANGED << pc, appVars, fnIn >>

NextMatrix == ParseMatrices \/ ApplyMatrices

SpecMatrix == InitMatrix /\ [][NextMatrix]_vars

MatricesApplied == pc = "matrix" /\ fnOut # NullObj

\* P: the primaries read from rXYZ, gXYZ and bXYZ, one per column.
PrimariesAsColumns(buf, tags) ==
    [i \in 1..3 |-> [j \in 1..3 |->
        readS15Fixed16(buf, TagOf(tags, << SIG_RXYZ, SIG_GXYZ, SIG_BXYZ >>[j]).offset
                                + 8 + 4 * (i - 1))]]

\* The product of two matrices, entry by entry.
MatrixProduct(A, B) ==
    [i \in 1..3 |-> [j \in 1..3 |->
        FMul(A[i][1], B[1][j]) + FMul(A[i][2], B[2][j]) + FMul(A[i][3], B[3][j])]]

\* Two triples differ by at most eps units in each component.
TripleWithin(x, y, eps) == \A i \in 1..3 : Abs(x[i] - y[i]) <= eps

\* C22: for every profile that parses, the forward matrix is
\* XYZ_TO_LINEAR_SRGB x (BRADFORD_D50_TO_D65 x P), P holding the primaries
\* as columns, and the reverse matrix is its inverse on both sides:
\* fromLinearSRGB(toLinearSRGB(v)) = v and toLinearSRGB(fromLinearSRGB(v)) = v,
\* exactly where the arithmetic is exact and within 1e-3 on the matrices of
\* a profile, where it rounds; and mat3Apply(mat3Multiply(A, B), v) equals
\* mat3Apply(A, mat3Apply(B, v)).
C22_ReverseMatrixInvertsForward ==
    MatricesApplied =>
        /\ fnIn.on = "profile" =>
              /\ fnOut.forward
                   = MatrixProduct(XYZ_TO_LINEAR_SRGB,
                        MatrixProduct(BRADFORD_D50_TO_D65,
                           PrimariesAsColumns(ICCBuffer(fnIn.profile),
                                              TagEntries(ICCBuffer(fnIn.profile)))))
              /\ fnOut.reverse # NullMatrix
              /\ TripleWithin(fnOut.thereAndBack, fnIn.v, 10)
              /\ TripleWithin(fnOut.backAndThere, fnIn.v, 10)
        /\ fnIn.on = "exact" =>
              /\ fnOut.reverse # NullMatrix
              /\ fnOut.thereAndBack = fnIn.v
              /\ fnOut.backAndThere = fnIn.v
              /\ LET byB == mat3Apply(fnIn.B, fnIn.v[1], fnIn.v[2], fnIn.v[3])
                 IN  fnOut.byProduct = mat3Apply(fnIn.A, byB[1], byB[2], byB[3])

\* A matrix that is not symmetric has been inverted and has taken a triple
\* with three different components there and back, and its product with a
\* different matrix has been applied.
C22_Witness ==
    /\ MatricesApplied
    /\ fnIn.on = "exact"
    /\ fnIn.A = IntMatrix(<< << 1, 2, 1 >>, << 0, 1, 2 >>, << 0, 0, 1 >> >>)
    /\ fnIn.B = IntMatrix(<< << 1, 1, 0 >>, << 0, 1, 1 >>, << 1, 0, 1 >> >>)
    /\ fnIn.v = << 2500, 5000, 7500 >>
    /\ fnOut.there # fnIn.v
    /\ fnOut.byProduct # fnOut.there
    /\ fnOut.thereAndBack = fnIn.v

\* The matrices of the Display P3 primaries have taken a triple there and
\* back.
MatricesOfProfileApplied ==
    /\ MatricesApplied
    /\ fnIn.on = "profile"
    /\ fnIn.profile.prim = "p3"
    /\ fnIn.v = << 2500, 5000, 7500 >>
    /\ fnOut.there # fnIn.v

-----------------------------------------------------------------------------
(* THE HISTORY STACKS UNDER SELECTION, NAVIGATION, SAVE AND RESTORE.  The  *)
(* application is running after a number of selections and navigations:   *)
(* one of the three stacks is active and holds one, two, 199 or 200        *)
(* colours, the picker shows the entry at its position.                    *)

COLOUR_DEFAULT == << 7000, 0, 0 >>
COLOUR_TYPED   == << 6000, 1000, -500 >>     \* oklab(0.6 0.1 -0.05)

\* n selections of growing lightness.
Selections(n) == [i \in 1..n |-> << 40 * i, 0, 0 >>]

HistoryStarts ==
    { [entries |-> << COLOUR_DEFAULT >>, pos |-> 0],
      [entries |-> << COLOUR_DEFAULT, COLOUR_TYPED >>, pos |-> 0],
      [entries |-> << COLOUR_DEFAULT, COLOUR_TYPED >>, pos |-> 1],
      [entries |-> Selections(MAX_HISTORY - 1), pos |-> MAX_HISTORY - 2],
      [entries |-> Selections(MAX_HISTORY), pos |-> MAX_HISTORY - 1],
      [entries |-> Selections(MAX_HISTORY), pos |-> 120],
      [entries |-> Selections(MAX_HISTORY), pos |-> 0] }

InitHistory ==
    /\ pc = "run"
    /\ isDisplayP3Supported = FALSE
    /\ workingCS = createSRGBWorkingCS
    /\ iccProfileBase64 = NullStr
    /\ \E active \in HistoryNames, h \in HistoryStarts :
          /\ histories = [n \in HistoryNames |->
                IF n = active THEN h
                ELSE InitialHistory(IF n = "light" THEN << FP, 0, 0 >> ELSE COLOUR_DEFAULT)]
          /\ current = h.entries[h.pos + 1]
          /\ albedo = IF active = "albedo" THEN h.entries[h.pos + 1] ELSE COLOUR_DEFAULT
          /\ light = IF active = "light" THEN h.entries[h.pos + 1] ELSE << FP, 0, 0 >>
          /\ isLightingOpen = (active # "main")
          /\ editTarget = IF active = "light" THEN "light" ELSE "albedo"
    /\ lightIntensity = FP
    /\ saveTimer = FALSE
    /\ localStorage = NullObj
    /\ pendingImports = {}
    /\ alert = << >>
    /\ dragging = {}
    /\ isAnimationFramePending = FALSE
    /\ frameEvent = NullObj
    /\ pickPending = FALSE
    /\ lastOp = "construct"
    /\ ops = 0
    /\ fnIn = NullObj
    /\ fnOut = NullObj

NextHistory ==
    \/ \E m \in CssMatches : CommitCssOklab(m)
    \/ historyBack
    \/ historyForward
    \/ SaveTimerFires
    \/ Restart
    \/ Startup

SpecHistory == InitHistory /\ [][NextHistory]_vars

ActiveHistory == histories[getActiveHistory(isLightingOpen, editTarget)]

\* C23: after every call of pushColorToHistory the position of the active
\* stack is its top entry, and that entry is the current colour, whatever
\* the position was before the call.
C23_PushLeavesPositionOnTop ==
    lastOp = "commit" =>
        /\ ActiveHistory.pos = Len(ActiveHistory.entries) - 1
        /\ IsDuplicate(ActiveHistory.entries[Len(ActiveHistory.entries)], current)

\* After every call of pushColorToHistory the top entry of the active stack
\* is the current colour.
PushLeavesColourOnTop ==
    lastOp = "commit" =>
        IsDuplicate(ActiveHistory.entries[Len(ActiveHistory.entries)], current)

\* A stack holds between 1 and MAX_HISTORY entries and its position is the
\* index of one of them.
HistoryShape(h) ==
    /\ Len(h.entries) >= 1
    /\ Len(h.entries) <= MAX_HISTORY
    /\ h.pos >= 0
    /\ h.pos <= Len(h.entries) - 1

SavedHistories ==
    << Persisted.historyMain, Persisted.historyAlbedo, Persisted.historyLight >>

\* C27: after any sequence of pushColorToHistory, historyBack,
\* historyForward, saveState and restoreState of a state that saveState
\* wrote, each of the three stacks holds between 1 and 200 entries and its
\* position is the index of one of them; a saved stack holds at most 50
\* entries; historyBack at position 0 and historyForward at the top change
\* nothing.
C27_HistoryStacksStayWellFormed ==
    /\ [](\A n \in HistoryNames : HistoryShape(histories[n]))
    /\ [](localStorage # NullObj =>
            \A i \in 1..3 : Len(SavedHistories[i].entries) <= SAVE_HISTORY_CAP)
    /\ [][ ( \/ historyBack /\ ActiveHistory.pos = 0
             \/ historyForward /\ ActiveHistory.pos = Len(ActiveHistory.entries) - 1 )
           => UNCHANGED << histories, colourVars, lightingVars, saveTimer,
                           localStorage >> ]_vars

\* A colour was pushed onto a full stack, the state saved, and the
\* application started again: the restored stack holds the last 50 entries,
\* the pushed colour on top.
C27_Witness ==
    /\ lastOp = "restore"
    /\ localStorage # NullObj
    /\ Len(historyMain.entries) = SAVE_HISTORY_CAP
    /\ historyMain.entries[SAVE_HISTORY_CAP] = COLOUR_TYPED
    /\ historyMain.entries[1] = Selections(MAX_HISTORY)[MAX_HISTORY - SAVE_HISTORY_CAP + 2]
    /\ historyMain.pos = SAVE_HISTORY_CAP - 1

\* historyBack was called at position 0 of a stack of two entries.
BackAtBottom ==
    /\ lastOp = "history"
    /\ ops = 1
    /\ historyMain = [entries |-> << COLOUR_DEFAULT, COLOUR_TYPED >>, pos |-> 0]
    /\ current = COLOUR_DEFAULT
    /\ ~saveTimer

-----------------------------------------------------------------------------
(* A DRAG WITH A FRAME REQUESTED.  The application is running, the pointer *)
(* went down on one control and moved: the flag of that control is set and *)
(* the frame callback requested by the move is pending.  fnIn names the    *)
(* control of the drag that requested it.                                  *)

InitDrag ==
    /\ pc = "run"
    /\ isDisplayP3Supported = FALSE
    /\ workingCS = createSRGBWorkingCS
    /\ iccProfileBase64 = NullStr
    /\ \E control \in Controls, down \in PointerEvents, move \in PointerEvents :
          /\ dragging = {control}
          /\ frameEvent = move
          /\ fnIn = [drag |-> control]
          /\ current = IF control = "intensity" THEN COLOUR_DEFAULT
                       ELSE UpdateFromPointer(control, down, COLOUR_DEFAULT)
          /\ lightIntensity = IF control = "intensity"
                              THEN updateIntensityFromPointer(down) ELSE FP
    /\ albedo = COLOUR_DEFAULT
    /\ light = << FP, 0, 0 >>
    /\ isLightingOpen = FALSE
    /\ editTarget = "albedo"
    /\ histories = [n \in HistoryNames |->
                      InitialHistory(IF n = "light" THEN << FP, 0, 0 >> ELSE COLOUR_DEFAULT)]
    /\ saveTimer = FALSE
    /\ localStorage = NullObj
    /\ pendingImports = {}
    /\ alert = << >>
    /\ isAnimationFramePending = TRUE
    /\ pickPending = FALSE
    /\ lastOp = "pointerMove"
    /\ ops = 0
    /\ fnOut = NullObj

NextDrag ==
    \/ \E control \in Controls, event \in PointerEvents : PointerDown(control, event)
    \/ \E event \in PointerEvents : PointerMove(event)
    \/ AnimationFrame
    \/ PointerUp

SpecDrag == InitDrag /\ [][NextDrag]_vars

\* The pending callback was requested by a drag that has ended: the flag of
\* its control was cleared by pointerup (and no move after that pointerup
\* requested another one).
FrameIsStale == isAnimationFramePending /\ fnIn.drag \notin dragging

\* C28: a callback requested by a pointermove of one drag never changes the
\* colour on behalf of another drag or after the drag ended: when pointerup,
\* and possibly a new pointerdown on a different control, happened before
\* the callback runs, the callback does not apply its stale pointer
\* position.
C28_StaleFrameChangesNothing ==
    [][ (AnimationFrame /\ FrameIsStale)
          => UNCHANGED << colourVars, lightIntensity >> ]_vars

\* When pointerup happened before the callback runs and no pointer went
\* down since, the callback changes nothing: the colour pushed to the
\* history at pointerup remains current.
FrameAfterPointerUpChangesNothing ==
    [][ (AnimationFrame /\ dragging = {})
          => /\ UNCHANGED << colourVars, lightIntensity, histories >>
             /\ (lastOp = "pointerUp" /\ fnIn.drag \in ColourControls)
                   => IsDuplicate(historyMain.entries[Len(historyMain.entries)],
                                  current') ]_vars

-----------------------------------------------------------------------------
(* THE PICKER AND THE EDIT TARGETS OF THE LIGHTING PANEL                   *)

\* The colour of the active edit target: albedo when editTarget is
\* 'albedo', light otherwise.
ActiveTargetColour == IF editTarget = "albedo" THEN albedo ELSE light

\* C29 as stated: whenever the lighting panel is open, after every completed
\* operation, restoreState included, the picker colour is the colour of the
\* active edit target and the operation has left the colour of the other
\* target as it was.
C29_OtherTargetNeverChanges ==
    /\ []((pc = "run" /\ isLightingOpen) => current = ActiveTargetColour)
    /\ [][ isLightingOpen' =>
             /\ editTarget' = "albedo" => light' = light
             /\ editTarget' # "albedo" => albedo' = albedo ]_vars

\* C29: whenever the lighting panel is open, after every completed operation
\* (drag update, field commit, eyedropper pick, history navigation,
\* setEditTarget, opening the panel, restoreState) the picker colour is the
\* colour of the active edit target, and the operation has left the colour
\* of the other target as it was; restoreState, which assigns both targets,
\* leaves the other one as the stored state has it.
C29_PickerIsActiveTarget ==
    /\ []((pc = "run" /\ isLightingOpen) => current = ActiveTargetColour)
    /\ [][ isLightingOpen' =>
             IF lastOp' = "restore"
             THEN localStorage # NullObj =>
                    /\ editTarget' = "albedo" => light' = Persisted.light
                    /\ editTarget' # "albedo" => albedo' = Persisted.albedo
             ELSE /\ editTarget' = "albedo" => light' = light
                  /\ editTarget' # "albedo" => albedo' = albedo ]_vars

\* With the panel open on the light tab, a field commit has changed the
\* picker and the light colour and left albedo alone.
C29_Witness ==
    /\ pc = "run"
    /\ isLightingOpen
    /\ editTarget = "light"
    /\ lastOp = "commit"
    /\ current = light
    /\ light # StaleState(NOT_BASE64).light
    /\ albedo = StaleState(NOT_BASE64).albedo

-----------------------------------------------------------------------------
(* THE CACHED PROFILE TEXT AND THE ACTIVE SPACE                            *)

\* C26: after every completed step of any interleaving of imports, resets
\* and a restore, iccProfileBase64 is non-null exactly when the active space
\* is ICC-derived, and then it is the Base64 text of exactly the bytes the
\* active space was parsed from, also when a reset or a second import
\* happens while the file read of an import is pending.
C26_CachedTextIsActiveProfile ==
    /\ (iccProfileBase64 # NullStr) <=> workingCS.perChannelTRC
    /\ iccProfileBase64 # NullStr =>
          /\ ~AtobThrows(iccProfileBase64)
          /\ \E parsed \in {parseICCProfile(atob(iccProfileBase64))} :
                parsed.ok /\ parsed.cs = workingCS

\* An import has completed while the file read of a second one is pending.
C26_Witness ==
    /\ lastOp = "importOk"
    /\ pendingImports = {FILE_SRGB}
    /\ iccProfileBase64 = btoa(ICCBuffer(FILE_NARROW))
    /\ workingCS = parseICCProfile(ICCBuffer(FILE_NARROW)).cs

\* The import that was started first has completed last, after the other
\* one: its profile is the active one.
LastCompletedImportWins ==
    /\ lastOp = "importOk"
    /\ ops = 2
    /\ pendingImports = {}
    /\ iccProfileBase64 = btoa(ICCBuffer(FILE_SRGB))
    /\ workingCS.name = TEXT_A

-----------------------------------------------------------------------------
(* THE DEBOUNCED SAVE.  fnOut holds the timers the runtime has pending,    *)
(* the variable saveTimer (0 for null), the number of changes made to the  *)
(* script state, the number of them the stored item reflects, the edit     *)
(* target of the script state and of the stored item, how often            *)
(* saveState ran since the last scheduleSave, and whether the window is    *)
(* open.  setTimeout returns an id that no pending timer has.              *)


MaxChanges == 5

InitSave ==
    /\ pc = "save"
    /\ Idle
    /\ fnIn = NullObj
    /\ fnOut = [ timers |-> {}, saveTimer |-> 0, made |-> 0, stored |-> 0,
                 editTarget |-> "albedo", item |-> "albedo",
                 savesSince |-> 0, open |-> TRUE ]

\* A handler (here setEditTarget) changes the state and calls scheduleSave():
\* if (saveTimer) clearTimeout(saveTimer); saveTimer = setTimeout(saveState, 500)
scheduleSave(target) ==
    /\ pc = "save"
    /\ fnOut.open
    /\ fnOut.made < MaxChanges
    /\ \E cleared \in {IF fnOut.saveTimer # 0 THEN fnOut.timers \ {fnOut.saveTimer}
                                               ELSE fnOut.timers} :
          \E id \in {CHOOSE n \in 1..3 : n \notin cleared /\ \A j \in 1..n - 1 : j \in cleared} :
             fnOut' = [fnOut EXCEPT
                         !.made = @ + 1,
                         !.editTarget = target,
                         !.timers = cleared \cup {id},
                         !.saveTimer = id,
                         !.savesSince = 0]
    /\ UNCHANGED << pc, appVars, fnIn >>

\* A pending timer fires and runs saveState(): saveTimer = null, then the
\* state as it is now is written to the storage.
saveState(id) ==
    /\ pc = "save"
    /\ fnOut.open
    /\ id \in fnOut.timers
    /\ fnOut' = [fnOut EXCEPT
                   !.timers = @ \ {id},
                   !.saveTimer = 0,
                   !.stored = fnOut.made,
                   !.item = fnOut.editTarget,
                   !.savesSince = @ + 1]
    /\ UNCHANGED << pc, appVars, fnIn >>

\* The window is closed: the application quits, and the timers of the page
\* go with it.
CloseWindow ==
    /\ pc = "save"
    /\ fnOut.open
    /\ fnOut' = [fnOut EXCEPT !.open = FALSE, !.timers = {}, !.saveTimer = 0]
    /\ UNCHANGED << pc, appVars, fnIn >>

\* The application is launched again: restoreState() reads the stored item,
\* and the script state is the one it reflects.
Relaunch ==
    /\ pc = "save"
    /\ ~fnOut.open
    /\ fnOut' = [fnOut EXCEPT !.open = TRUE, !.made = fnOut.stored,
                               !.editTarget = fnOut.item, !.savesSince = 0]
    /\ UNCHANGED << pc, appVars, fnIn >>

NextSave ==
    \/ \E target \in {"albedo", "light"} : scheduleSave(target)
    \/ \E id \in 1..3 : saveState(id)
    \/ CloseWindow
    \/ Relaunch

SpecSave == InitSave /\ [][NextSave]_vars

\* The runtime fires every timer that stays pending.
SpecSaveFair == SpecSave /\ WF_vars(\E id \in 1..3 : saveState(id))

\* At most one save timer is pending, and it is the one saveTimer names.
AtMostOneSaveTimer ==
    /\ Cardinality(fnOut.timers) <= 1
    /\ fnOut.timers = (IF fnOut.saveTimer = 0 THEN {} ELSE {fnOut.saveTimer})

\* A burst of scheduleSave calls is followed by one saveState, which writes
\* the state as it is when the timer fires.
OneSavePerBurst ==
    /\ fnOut.savesSince <= 1
    /\ (fnOut.savesSince = 1 /\ fnOut.open) =>
          (fnOut.stored = fnOut.made /\ fnOut.item = fnOut.editTarget)

\* C24: the save is debounced: at most one save timer is pending at any
\* time, a burst of scheduleSave calls results in exactly one saveState
\* after the last call, that saveState writes the state as it is when the
\* timer fires, and every change that called scheduleSave is eventually
\* persisted.
C24_EveryChangeEventuallyPersisted ==
    /\ []AtMostOneSaveTimer
    /\ []OneSavePerBurst
    /\ \A k \in 1..MaxChanges :
          (fnOut.made = k /\ fnOut.stored < k /\ fnOut.saveTimer # 0)
              ~> (fnOut.stored >= k)

\* The debounce itself: one timer at most, one save per burst, of the state
\* as it is when the timer fires.
SaveIsDebounced == AtMostOneSaveTimer /\ OneSavePerBurst

\* While the window stays open every change that called scheduleSave is
\* persisted: a pending change leads to its save or to the window closing.
ChangePersistedWhileWindowOpen ==
    \A k \in 1..MaxChanges :
        (fnOut.made = k /\ fnOut.stored < k /\ fnOut.saveTimer # 0)
            ~> (fnOut.stored >= k \/ ~fnOut.open)

=============================================================================
